---------------------------- MODULE AxiCheckers ----------------------------
(***************************************************************************)
(* The protocol checkers of AXI: they look at the five channels at every   *)
(* edge of the clock and report what is not allowed.                       *)
(***************************************************************************)
EXTENDS CheckedChannels

CONSTANT
  Boundary      (* Stands for 4096.                                        *)

VARIABLES
  m_rtList,     (* check_rd_tx.                                            *)
  m_wtList, m_wdataList, m_respList         (* check_wr_tx.                *)

lists == <<m_rtList, m_wtList, m_wdataList, m_respList>>
vars == <<channels, monitors, lists, errors>>

Init ==
  /\ InitChannels
  /\ m_rtList = <<>>
  /\ m_wtList = <<>> /\ m_wdataList = <<>> /\ m_respList = <<>>
-----------------------------------------------------------------------------
(* check_rd_tx.                                                            *)

ErrorResponse(resp, excl) ==
  ~(resp = "OKAY" \/ (excl /\ resp = "EXOKAY"))

SampledAR ==
  IF Transfers("ar") /\ Len(m_rtList) < max_depth
    THEN Append(m_rtList, [id |-> Item("ar").id, left |-> Item("ar").beats,
                           excl |-> Item("ar").excl])
    ELSE m_rtList

(* The mutant takes the oldest transaction, whatever its identifier.       *)
MutantRtOf(list) == IF list = <<>> THEN 0 ELSE 1

RtOf(list) == FirstWith(list, Item("r").id)

rd_check ==
  LET list == SampledAR   i == RtOf(list)   x == Item("r")
      left == list[i].left - 1
  IN IF ~Transfers("r") THEN [list |-> list, errors |-> {}]
     ELSE IF i = 0 THEN [list |-> list, errors |-> {"rd id"}]
     ELSE [list |-> IF x.last THEN Without(list, i)
                    ELSE [list EXCEPT ![i].left = left],
           errors |-> When(ErrorResponse(x.resp, list[i].excl), "response")
                      \cup When(x.last # (left = 0), "rd order")]
-----------------------------------------------------------------------------
(* check_wr_tx.                                                            *)

(* The transaction that a beat is for.                                     *)
WtOf(list, wd) ==
  IF list = <<>> THEN 0
  ELSE IF scenario.version = "AXI4" THEN 1 ELSE FirstWith(list, wd.id)

(* The mutant allows a burst that is a beat short.                         *)
MutantDone(t) == t.beat + 1 >= t.beats

Done(t) == t.beat + 1 > t.beats

(* One turn of the loops of process_aw_w_axi4 and process_aw_w_axi3.       *)
matched(s, wd) ==
  LET i == WtOf(s.wt, wd)   t == s.wt[i]
      room == Len(s.resp) < max_depth
      wrong == When(~CheckWstrb(t, wd.strb, scenario.gaps), "wstrb")
               \cup When(wd.last /\ ~Done(t), "wr burst")
  IN IF i = 0 THEN [s EXCEPT !.wd = Append(@, wd)]
     ELSE IF wd.last
       THEN [s EXCEPT !.wt = Without(@, i), !.errors = @ \cup wrong
                                            \cup When(~room, "wr depth"),
                      !.resp = IF room THEN Append(@, [id |-> t.id,
                                                       excl |-> t.excl])
                               ELSE @]
       ELSE [s EXCEPT !.wt[i].beat = @ + 1, !.errors = @ \cup wrong]

wr_check ==
  LET aw == Item("aw")   b == Item("b")
      awRoom == Len(m_wtList) < max_depth
      wts == IF Transfers("aw") /\ awRoom
               THEN Append(m_wtList,
                           [id |-> aw.id, beat |-> 1, beats |-> aw.beats,
                            addr |-> aw.addr, size |-> aw.size,
                            burst |-> aw.burst, excl |-> aw.excl])
               ELSE m_wtList
      wds == IF Transfers("w") THEN Append(m_wdataList, Item("w"))
             ELSE m_wdataList
      s == FoldLeft(matched,
                    [wt |-> wts, wd |-> <<>>, resp |-> m_respList,
                     errors |-> When(Transfers("aw") /\ ~awRoom, "wr depth")],
                    wds)
      i == FirstWith(s.resp, b.id)
  IN IF ~Transfers("b") THEN s
     ELSE IF i = 0 THEN [s EXCEPT !.errors = @ \cup {"wr id"}]
     ELSE [s EXCEPT !.resp = Without(@, i),
                    !.errors = @ \cup When(ErrorResponse(b.resp, s.resp[i].excl),
                                           "response")]
-----------------------------------------------------------------------------
(* check_addr_alignment.                                                   *)

check_burst_length(x) == x.burst = "WRAP" => x.beats \in {2, 4, 8, 16}

(* The mutant takes the address after the last for the last one.           *)
MutantAlignment(x) ==
  LET first == Align(x.addr, x.size)
  IN CASE x.burst = "WRAP" -> first = x.addr
       [] x.burst = "INCR" -> Align(first, Boundary)
                              = Align(first + x.beats * x.size, Boundary)
       [] OTHER -> TRUE

check_address_alignment(x) ==
  LET first == Align(x.addr, x.size)
  IN CASE x.burst = "WRAP" -> first = x.addr
       [] x.burst = "INCR" -> Align(first, Boundary)
                              = Align(first + x.beats * x.size - 1, Boundary)
       [] OTHER -> TRUE

addr_alignment_check ==
  UNION {When(~check_burst_length(Item(c)), "axlen")
         \cup When(~check_address_alignment(Item(c)), "alignment") :
         c \in {c \in {"ar", "aw"} : Transfers(c)}}
-----------------------------------------------------------------------------
(* Steps.                                                                  *)

Awaited == {c \in {"r", "aw", "w", "b"} : Expected(c)}

posedge ==
  /\ Edge(Awaited)
  /\ m_rtList' = rd_check.list
  /\ m_wtList' = wr_check.wt /\ m_wdataList' = wr_check.wd
  /\ m_respList' = wr_check.resp
  /\ counts' = axi_handshakes_check(Item("ar").beats, TRUE)
  /\ errors' = errors \cup EdgeErrors(Awaited) \cup rd_check.errors
               \cup wr_check.errors \cup addr_alignment_check

reset_falls ==
  /\ Falls
  /\ m_rtList' = <<>>
  /\ m_wtList' = <<>> /\ m_wdataList' = <<>> /\ m_respList' = <<>>

reset_released == Released /\ UNCHANGED lists

Next == posedge \/ reset_falls \/ reset_released

Spec == Init /\ [][Next]_vars
-----------------------------------------------------------------------------
(* Properties.                                                             *)

(* Two checkers that follow the writes in different ways agree on the      *)
(* responses that are still to come, and at the end they have forgotten    *)
(* everything.                                                             *)
CheckersAgree ==
  scenario.wrong = {} /\ scenario.fault = <<>> =>
    /\ scenario.version = "AXI4" => counts.m_b = Len(m_respList)
    /\ Over => /\ m_rtList = <<>> /\ m_wtList = <<>> /\ m_wdataList = <<>>
               /\ m_respList = <<>> /\ counts = NoCounts
=============================================================================
