---------------------------- MODULE ChiCoherence ----------------------------
(***************************************************************************)
(* Caches kept coherent by the CHI interconnect: cache-chi.h with the      *)
(* transactions of private/chi/txns-rn.h (the request nodes),              *)
(* iconnect-chi.h (the home node: its ports and their snoop filters, the   *)
(* orderer that admits one request at a time, the point of coherence and   *)
(* the transaction processor) and sn-chi.h (the slave node at the memory). *)
(*                                                                         *)
(* A channel of a node is a fifo and its thread delivers one message at a  *)
(* time: up.req, up.rsp and up.dat to the home, down.rsp, down.dat and     *)
(* down.snp to the node. What the receiver does at once is one step.       *)
(* `running' is the node whose thread runs inside its cache. The kernel    *)
(* runs the threads in the order they were notified: a thread whose        *)
(* transaction is done gets to its next wait before the home, which takes  *)
(* two threads to reach the node, does.                                    *)
(*                                                                         *)
(* Abstracted: a transaction identifier is named for what it identifies,   *)
(* one request being worked on at a time; a message that carries a line    *)
(* does so at once. Between home and slave there is one fifo each way, for *)
(* the data of a write leaves the home before its next request does. Left  *)
(* out: the stash requests and snoops, the maintenance requests and what   *)
(* else a cache never issues; exclusive requests at the home, for a cache  *)
(* does not pass the attribute on (CopyCHIAttr); secure accesses; ordered  *)
(* reads.                                                                  *)
(***************************************************************************)
EXTENDS Integers, Sequences, FiniteSets, SequencesExt

CONSTANTS
  Nodes,      (* The request nodes, each with a cache.                     *)
  Lines,      (* The cache lines of the memory.                            *)
  Words,      (* The words of a line, from 0.                              *)
  Scenarios,  (* What the systems are, and the bound on their requests.    *)
  None        (* No node.                                                  *)

VARIABLES
  scenario,   (* Where a cache keeps each line, what each node may be      *)
              (* asked for, the reads it picks from, whether it may write  *)
              (* without a copy, the lines that are not shareable, whether *)
              (* the home lets caches forward data                         *)
  slot,       (* m_cacheline of each node                                  *)
  m_monitor,  (* The words of its exclusive sequences                      *)
  m_receivedDVM, (* Whether it got the first half of a DVM snoop           *)
  req,        (* The request a node is working on                          *)
  txn,        (* Its transaction                                           *)
  running,    (* The node whose thread runs                                *)
  asked,      (* The number of requests so far                             *)
  up,         (* The channels to the home                                  *)
  home,       (* The home node, and its channels to nodes and slave        *)
  toHome,     (* The channel from the slave to the home                    *)
  m_toggle,   (* Of the slave                                              *)
  mem,        (* The memory                                                *)
  last,       (* History: the last store to each word                      *)
  spoiled,    (* History: lines of which the code lost track               *)
  since,      (* History: words not stored to since a node's request began *)
  misread,    (* History: a read without a copy got an old word            *)
  reserved,   (* History: words loaded exclusively, not stored to since    *)
  evaded,     (* History: words whose monitor misses a store               *)
  torn        (* History: an exclusive store went through wrongly          *)

caches == <<slot, m_monitor, m_receivedDVM>>
slave == <<m_toggle, mem>>
history == <<last, spoiled, since, misread, reserved, evaded, torn>>
vars == <<scenario, caches, req, txn, running, asked, up, home, toHome,
          slave, history>>

-----------------------------------------------------------------------------
Cells == Lines \X Words
CellsOf(l) == {l} \X Words
Zero == [w \in Words |-> 0]
Slot(n, l) == slot[n][scenario.index[l]]
SetSlot(n, l, line) == slot' = [slot EXCEPT ![n][scenario.index[l]] = line]
Merge(old, new, be) == [w \in Words |-> IF w \in be THEN new[w] ELSE old[w]]

NoReq == [kind |-> "none", line |-> 0, cells |-> {}, excl |-> FALSE,
          done |-> FALSE]

(* CacheLineStatus. A line is full, partial or empty by its byte enables.  *)
GetStatus(line) ==
  IF ~line.valid THEN "INV"
  ELSE IF line.shared THEN IF line.dirty THEN "SD" ELSE "SC"
  ELSE IF line.be = Words THEN IF line.dirty THEN "UD" ELSE "UC"
  ELSE IF line.be = {} THEN "UCE" ELSE "UDP"

AllocatingReads == {"ReadClean", "ReadNotSharedDirty", "ReadShared", "ReadUnique"}
OnceReads == {"ReadOnce", "ReadOnceCleanInvalid", "ReadOnceMakeInvalid"}
IsSnpRead(op) == op \in AllocatingReads \cup OnceReads
IsRead(op) == IsSnpRead(op) \/ op = "ReadNoSnp"
IsNonCoherentRead(op) == op \in OnceReads \cup {"ReadNoSnp"}
IsWriteUnique(op) == op \in {"WriteUniquePtl", "WriteUniqueFull"}
IsCopyBack(op) ==
  op \in {"WriteBackFull", "WriteBackPtl", "WriteCleanFull", "WriteEvictFull"}
IsWrite(op) == IsCopyBack(op) \/ IsWriteUnique(op)
IsDataLess(op) == op \in {"CleanUnique", "MakeUnique", "Evict"}
IsAtomic(op) == op \in {"AtomicStore", "AtomicLoad"}
(* Whoever asks for a coherent atomic operation sets SnpAttr. The mutant   *)
(* does not snoop for a read that keeps no copy.                           *)
MutantIsSnoopingReq(op) ==
  \/ op \in AllocatingReads \/ IsWriteUnique(op) \/ IsAtomic(op)
  \/ op \in {"CleanUnique", "MakeUnique"}
IsSnoopingReq(op) ==
  \/ IsSnpRead(op) \/ IsWriteUnique(op) \/ IsAtomic(op)
  \/ op \in {"CleanUnique", "MakeUnique"}

NoTxn == [op |-> "none", line |-> 0, ack |-> FALSE, data |-> Zero, be |-> {},
          comp |-> FALSE, credit |-> {}]
Txn(op, l, ack, data, be) ==
  [op |-> op, line |-> l, ack |-> ack, data |-> data, be |-> be,
   comp |-> FALSE, credit |-> {}]

(* A request as the home keeps it. `resp' is what ParseSnpResponses makes  *)
(* of the answers, whether they left a copy and whether they pass dirty    *)
(* data.                                                                   *)
NoCur == [src |-> None, op |-> "none"]
ReqTxn(n, t) ==
  [src |-> n, op |-> t.op, line |-> t.line, ack |-> t.ack, snps |-> {},
   isSnpFwded |-> FALSE, snpDataFwded |-> FALSE, resp |-> {}, gotSnpData |-> FALSE,
   isSnpDataPtl |-> FALSE, waitingForCompAck |-> FALSE,
   compAckReceived |-> FALSE, writeToSNDone |-> FALSE, credit |-> {},
   data |-> Zero, be |-> {}]

Init ==
  /\ scenario \in Scenarios
  /\ slot = [n \in Nodes |-> [i \in {scenario.index[l] : l \in Lines} |->
       [valid |-> FALSE, tag |-> 0, shared |-> FALSE, dirty |-> FALSE,
        be |-> Words, data |-> Zero]]]
  /\ m_monitor = [n \in Nodes |-> {}] /\ m_receivedDVM = [n \in Nodes |-> FALSE]
  /\ req = [n \in Nodes |-> NoReq] /\ txn = [n \in Nodes |-> NoTxn]
  /\ running = None /\ asked = 0
  /\ up = [n \in Nodes |-> [req |-> <<>>, rsp |-> <<>>, dat |-> <<>>]]
  /\ home = [reqList |-> <<>>, cur |-> NoCur, ids |-> {},
             filter |-> [n \in Nodes |-> {}], toggle |-> [n \in Nodes |-> FALSE],
             down |-> [n \in Nodes |-> [rsp |-> <<>>, dat |-> <<>>, snp |-> <<>>]],
             toSN |-> <<>>]
  /\ toHome = <<>> /\ m_toggle = FALSE
  /\ mem = [c \in Cells |-> 0] /\ last = mem
  /\ spoiled = {} /\ misread = FALSE /\ torn = FALSE
  /\ since = [n \in Nodes |-> {}]
  /\ reserved = [n \in Nodes |-> {}]
  /\ evaded = [n \in Nodes |-> {c \in Cells : c[2] # 0}]

(* A store, at the point where everybody must read it from then on.        *)
Stored(n, cells, data) ==
  /\ last' = [c \in Cells |-> IF c \in cells THEN data[c[2]] ELSE last[c]]
  /\ since' = [m \in Nodes |-> since[m] \ cells]
  /\ reserved' = [m \in Nodes |->
       IF m = n THEN reserved[m] ELSE reserved[m] \ cells]
NotStored == UNCHANGED <<last, since, reserved>>

-----------------------------------------------------------------------------
(* A cache that is snooped: what each handler answers to a line in each    *)
(* state. `held' and `pd' are what the home reads from the response (a     *)
(* copy is left, dirty data is passed), `fwd' is the state of the line the *)
(* cache forwards to the requester itself. RetToSrc is always set.         *)

Answer(data, held, pd) ==
  [data |-> data, held |-> held, pd |-> pd, fwd |-> "none"]
Fwded(data, held, pd, fwd) ==
  [data |-> data, held |-> held, pd |-> pd, fwd |-> fwd]
SnpResp(held) == Answer("none", held, FALSE)
SnpRespData(held, pd) == Answer("full", held, pd)
SnpRespDataPtl(held, pd) == Answer("ptl", held, pd)

HandleSnpOnce(status) ==
  CASE status \in {"UC", "UD", "SC", "SD"} -> SnpRespData(TRUE, FALSE)
    [] status = "UCE" -> SnpResp(TRUE)
    [] status = "UDP" -> SnpRespDataPtl(TRUE, FALSE)

HandleSnpClean(status) ==
  CASE status \in {"UC", "SC"} -> SnpRespData(TRUE, FALSE)
    [] status = "UCE" -> SnpResp(FALSE)
    [] status \in {"UD", "SD"} -> SnpRespData(TRUE, TRUE)
    [] status = "UDP" -> SnpRespDataPtl(FALSE, TRUE)

(* The mutant invalidates a dirty line without passing its data.           *)
MutantSnpUniqueDrops(status) ==
  CASE status \in {"UC", "SC"} -> SnpRespData(FALSE, FALSE)
    [] status = "UCE" -> SnpResp(FALSE)
    [] status \in {"UD", "SD"} -> SnpRespData(FALSE, FALSE)
    [] status = "UDP" -> SnpRespDataPtl(FALSE, TRUE)

HandleSnpUnique(status) ==
  CASE status \in {"UC", "SC"} -> SnpRespData(FALSE, FALSE)
    [] status = "UCE" -> SnpResp(FALSE)
    [] status \in {"UD", "SD"} -> SnpRespData(FALSE, TRUE)
    [] status = "UDP" -> SnpRespDataPtl(FALSE, TRUE)

HandleSnpCleanInvalid(status) ==
  CASE status \in {"UC", "UCE", "SC"} -> SnpResp(FALSE)
    [] status \in {"UD", "SD"} -> SnpRespData(FALSE, TRUE)
    [] status = "UDP" -> SnpRespDataPtl(FALSE, TRUE)

HandleSnpMakeInvalid(status) == SnpResp(FALSE)

HandleSnpOnceFwd(status) ==
  CASE status \in {"UC", "UD", "SC", "SD"} -> Fwded("none", TRUE, FALSE, "I")
    [] status = "UCE" -> SnpResp(TRUE)
    [] status = "UDP" -> SnpRespDataPtl(TRUE, FALSE)

(* HandleSnpCleanFwd, HandleSnpNotSharedDirtyFwd and HandleSnpSharedFwd.   *)
HandleSnpSharedFwd(status) ==
  CASE status \in {"UC", "SC"} -> Fwded("full", TRUE, FALSE, "SC")
    [] status = "UCE" -> SnpResp(FALSE)
    [] status \in {"UD", "SD"} -> Fwded("full", TRUE, TRUE, "SC")
    [] status = "UDP" -> SnpRespDataPtl(FALSE, TRUE)

HandleSnpUniqueFwd(status) ==
  CASE status \in {"UC", "SC"} -> Fwded("none", FALSE, FALSE, "UC")
    [] status = "UCE" -> SnpResp(FALSE)
    [] status \in {"UD", "SD"} -> Fwded("none", FALSE, FALSE, "UD")
    [] status = "UDP" -> SnpRespDataPtl(FALSE, TRUE)

SharedSnoops == {"SnpClean", "SnpNotSharedDirty", "SnpShared"}
HandleSnp(s, status) ==
  CASE status = "INV" -> SnpResp(FALSE)
    [] s.m = "SnpOnce" ->
         IF s.fwd THEN HandleSnpOnceFwd(status) ELSE HandleSnpOnce(status)
    [] s.m \in SharedSnoops ->
         IF s.fwd THEN HandleSnpSharedFwd(status) ELSE HandleSnpClean(status)
    [] s.m = "SnpUnique" ->
         IF s.fwd THEN HandleSnpUniqueFwd(status) ELSE HandleSnpUnique(status)
    [] s.m = "SnpCleanInvalid" -> HandleSnpCleanInvalid(status)
    [] s.m = "SnpMakeInvalid" -> HandleSnpMakeInvalid(status)

(* What the line becomes. A dirty line that answers SnpClean stays dirty,  *)
(* though its data is passed; one that forwards does not.                  *)
Snooped(s, line) ==
  LET status == GetStatus(line)
  IN IF s.m = "SnpOnce" THEN line
     ELSE IF s.m \in SharedSnoops /\ status \notin {"UCE", "UDP"}
       THEN [line EXCEPT !.shared = TRUE,
              !.dirty = status = "UD" /\ ~s.fwd]
     ELSE [line EXCEPT !.valid = FALSE]

-----------------------------------------------------------------------------
(* The home node. Each operator takes the node and returns what it makes   *)
(* of it, as the functions of iconnect-chi.h call each other.              *)

Take(h, id) == [h EXCEPT !.ids = @ \cup {id}]
ReturnID(h, id) == [h EXCEPT !.ids = @ \ {id}]
Transmit(h, n, channel, msg) ==
  [h EXCEPT !.down[n] = [@ EXCEPT ![channel] = Append(@, msg)]]
RequestDone(h) == [h EXCEPT !.cur = NoCur]
Rsp(m, id) == [m |-> m, id |-> id]
CompData(id, st, data, be) ==
  [m |-> "CompData", id |-> id, st |-> st, data |-> data, be |-> be]

(* SnoopFilter::Update for the requester. The mutant keeps the line of an  *)
(* Evict.                                                                  *)
MutantFilterForgetsClean(h) ==
  LET c == h.cur
  IN IF c.op \in AllocatingReads \cup {"CleanUnique", "MakeUnique"}
       THEN [h EXCEPT !.filter[c.src] = @ \cup {c.line}]
     ELSE [h EXCEPT !.filter[c.src] = @ \ {c.line}]

UpdatePortRNFSnoopFilter(h) ==
  LET c == h.cur
  IN IF c.op \in AllocatingReads \cup {"CleanUnique", "MakeUnique"}
       THEN [h EXCEPT !.filter[c.src] = @ \cup {c.line}]
     ELSE IF c.op = "WriteCleanFull" THEN h
     ELSE [h EXCEPT !.filter[c.src] = @ \ {c.line}]

ToSlave(h, m, id) ==
  [h EXCEPT !.toSN = Append(@, [m |-> m, id |-> id, allowRetry |-> TRUE])]

(* The mutant does not wait for the CompAck of a read that keeps no copy.  *)
MutantAllowsDMT(c) ==
  c.resp = {} /\ ~IsAtomic(c.op) /\ ~IsNonCoherentRead(c.op)

AllowsDMT(c) == c.resp = {} /\ ~IsAtomic(c.op)
AllowsPassDirtySnpData(c) ==
  ~c.isSnpDataPtl /\ c.op \in {"ReadShared", "ReadUnique"}
GetSnpRespResult(c) ==
  CASE c.resp = {} -> "UC"
    [] c.resp = {"held"} -> "SC"
    [] c.resp = {"pd"} -> "UD"
    [] OTHER -> "SD"

ProcessReq(h) ==
  LET c == h.cur
  IN CASE IsRead(c.op) ->
            ToSlave([Take(h, "sn") EXCEPT !.cur.waitingForCompAck =
                       @ \/ AllowsDMT(c)], "Read", "sn")
       [] IsWrite(c.op) \/ c.op = "AtomicStore" ->
            Transmit([Take(h, "db") EXCEPT !.cur.waitingForCompAck =
                        @ \/ (IsWriteUnique(c.op) /\ c.ack)],
                     c.src, "rsp", Rsp("CompDBIDResp", "db"))
       [] IsDataLess(c.op) /\ c.ack ->
            Transmit([Take(h, "db") EXCEPT !.cur.waitingForCompAck = TRUE],
                     c.src, "rsp", Rsp("Comp", "db"))
       [] IsDataLess(c.op) /\ ~c.ack ->
            Transmit(RequestDone(UpdatePortRNFSnoopFilter(h)),
                     c.src, "rsp", Rsp("Comp", "none"))
       [] OTHER -> Transmit(Take(h, "db"), c.src, "rsp", Rsp("DBIDResp", "db"))

(* After the snoops. Dirty data that the requester may not have is written *)
(* first, which comes back here. The mutant hands it out as it is.         *)
MutantSnpdPassesDirty(h) ==
  LET c == h.cur
  IN CASE c.gotSnpData /\ IsSnpRead(c.op) ->
            Transmit([Take(h, "db") EXCEPT !.cur.waitingForCompAck = TRUE],
              c.src, "dat",
              CompData("db", IF IsNonCoherentRead(c.op) THEN "I"
                             ELSE GetSnpRespResult(c), c.data, c.be))
       [] c.op = "DVMOp" ->
            RequestDone(Transmit(h, c.src, "rsp", Rsp("Comp", "none")))
       [] OTHER -> ProcessReq([h EXCEPT !.cur.gotSnpData = FALSE,
                                 !.cur.writeToSNDone = FALSE])

ProcessSnpdReq(h) ==
  LET c == h.cur
  IN CASE c.gotSnpData /\ "pd" \in c.resp /\ ~AllowsPassDirtySnpData(c) ->
            ToSlave([Take(h, "sn") EXCEPT !.cur.resp = @ \ {"pd"}],
                    "Write", "sn")
       [] c.gotSnpData /\ IsSnpRead(c.op)
            /\ ("pd" \in c.resp => AllowsPassDirtySnpData(c)) ->
            Transmit([Take(h, "db") EXCEPT !.cur.waitingForCompAck = TRUE],
              c.src, "dat",
              CompData("db", IF IsNonCoherentRead(c.op) THEN "I"
                             ELSE GetSnpRespResult(c), c.data, c.be))
       [] c.op = "DVMOp" ->
            RequestDone(Transmit(h, c.src, "rsp", Rsp("Comp", "none")))
       [] OTHER -> ProcessReq([h EXCEPT !.cur.gotSnpData = FALSE,
                                 !.cur.writeToSNDone = FALSE])

(* SnpMsg::GetOpcode.                                                      *)
SnoopOf(op) ==
  CASE op = "ReadOnce" -> "SnpOnce"
    [] op = "ReadClean" -> "SnpClean"
    [] op = "ReadNotSharedDirty" -> "SnpNotSharedDirty"
    [] op = "ReadShared" -> "SnpShared"
    [] op \in {"CleanUnique", "WriteUniquePtl"} -> "SnpCleanInvalid"
    [] op \in {"MakeUnique", "WriteUniqueFull"} -> "SnpMakeInvalid"
    [] OTHER -> "SnpUnique"

FillPortsToSnoop(h) ==
  {n \in Nodes \ {h.cur.src} : h.cur.line \in h.filter[n]}

(* The messages of one snoop to every port of a set.                      *)
ToPorts(h, ports, msgs) ==
  [h EXCEPT !.ids = @ \cup ports, !.cur.snps = ports,
     !.down = [n \in Nodes |->
       IF n \in ports THEN [@[n] EXCEPT !.snp = @ \o msgs] ELSE @[n]]]

(* PointOfCoherence::ProcessReq. A single cache that has the line may be   *)
(* asked to forward it.                                                    *)
Snoop(h) ==
  LET c == h.cur
      ports == FillPortsToSnoop(h)
      fwd == /\ scenario.dct /\ Cardinality(ports) = 1 /\ ~IsAtomic(c.op)
             /\ SnoopOf(c.op) \in SharedSnoops \cup {"SnpOnce", "SnpUnique"}
      Snp == << [m |-> SnoopOf(c.op), fwd |-> fwd, src |-> c.src,
                line |-> c.line] >>
  IN IF ports = {} THEN ProcessReq(h)
     ELSE ToPorts([h EXCEPT !.cur.isSnpFwded = fwd,
                     !.cur.waitingForCompAck = fwd], ports, Snp)

ProcessDVM(h) ==
  LET Dvm == [i \in 1..2 |-> [m |-> "SnpDVMOp", fwd |-> FALSE,
                              src |-> h.cur.src, line |-> 0]]
  IN ToPorts(h, Nodes \ {h.cur.src}, Dvm)

(* One mutant waits for the forwarded data of a cache that had none, the   *)
(* other goes on after the first answer.                                   *)
MutantWaitsForFwd(h) ==
  IF h.cur.snps # {} \/ h.cur.isSnpFwded THEN h ELSE ProcessSnpdReq(h)
MutantFirstAnswer(h) ==
  IF h.cur.isSnpFwded /\ h.cur.snpDataFwded THEN h ELSE ProcessSnpdReq(h)

CheckSnpDone(h) ==
  LET c == h.cur
  IN IF c.snps # {} \/ (c.isSnpFwded /\ c.snpDataFwded) THEN h
     ELSE ProcessSnpdReq(h)

(* ProcessResp and ProcessDat of the point of coherence: the answer a of   *)
(* node n. The home keeps its identifier when the line was forwarded, for  *)
(* the CompAck of the requester. That one cannot be here yet: a node       *)
(* forwards after its answer has been taken.                               *)
ProcessAnswer(h, n, a, line) ==
  LET c == h.cur
      fwded == a.fwd # "none"
      ids == IF c.isSnpFwded /\ fwded THEN h ELSE ReturnID(h, n)
      answered == [ids EXCEPT
        !.filter[n] = IF a.held THEN @ ELSE @ \ {c.line},
        !.cur.snps = @ \ {n},
        !.cur.resp = @ \cup (IF a.held THEN {"held"} ELSE {})
                       \cup (IF a.pd THEN {"pd"} ELSE {}),
        !.cur.gotSnpData = @ \/ a.data # "none",
        !.cur.isSnpDataPtl = @ \/ a.data = "ptl",
        !.cur.snpDataFwded = c.isSnpFwded /\ fwded,
        !.cur.data = IF a.data = "none" THEN @ ELSE Merge(Zero, line.data, line.be),
        !.cur.be = IF a.data = "none" THEN @ ELSE line.be]
  IN CheckSnpDone(answered)

(* TxnProcessor::ProcessResp, of a CompAck, and ProcessDat. The mutant     *)
(* keeps the identifier of a request that is over.                         *)
MutantCompAckKeepsID(h, id) ==
  LET updated == UpdatePortRNFSnoopFilter(h)
  IN IF ~IsWriteUnique(h.cur.op) THEN RequestDone(updated)
     ELSE IF h.cur.writeToSNDone THEN RequestDone(h)
     ELSE [h EXCEPT !.cur.compAckReceived = TRUE]

ProcessCompAck(h, id) ==
  LET c == h.cur
      ended == RequestDone(ReturnID(h, id))
      updated == UpdatePortRNFSnoopFilter(h)
  IN IF IsWriteUnique(c.op)
       THEN IF c.writeToSNDone THEN ended
            ELSE [h EXCEPT !.cur.compAckReceived = TRUE]
     ELSE IF c.snps = {} THEN RequestDone(ReturnID(updated, id))
     ELSE [updated EXCEPT !.cur.compAckReceived = TRUE]

ProcessDat(h, msg) ==
  LET written == [h EXCEPT !.cur.data = Merge(Zero, msg.data, msg.be),
                    !.cur.be = msg.be]
      updated == UpdatePortRNFSnoopFilter(written)
      c == h.cur
  IN CASE IsCopyBack(c.op) /\ msg.pd -> ToSlave(updated, "Write", msg.id)
       [] IsCopyBack(c.op) /\ ~msg.pd -> RequestDone(ReturnID(updated, msg.id))
       [] c.op = "DVMOp" -> ProcessDVM(ReturnID(written, msg.id))
       [] IsAtomic(c.op) -> ToSlave(written, c.op, msg.id)
       [] OTHER -> ToSlave(written, "Write", msg.id)

(* The orderer admits the next request when the one before it is done.     *)
req_ordering_thread ==
  /\ running = None /\ home.cur = NoCur /\ home.reqList # <<>>
  /\ LET r == Head(home.reqList)
         h == [home EXCEPT !.reqList = Tail(@), !.cur = ReqTxn(r.src, r)]
     IN home' = IF IsSnoopingReq(r.op) THEN Snoop(h) ELSE ProcessReq(h)
  /\ UNCHANGED <<scenario, caches, req, txn, running, asked, up, toHome,
                 slave, history>>

-----------------------------------------------------------------------------
(* The slave node. It takes requests in their order, and answers some of   *)
(* them with a retry and a credit first.                                   *)

LineData(l) == [w \in Words |-> mem[<<l, w>>]]
WriteMem(l, be, data) ==
  mem' = [c \in Cells |-> IF c[1] = l /\ c[2] \in be THEN data[c[2]] ELSE mem[c]]

(* An atomic operation is one that changes the word whatever it holds.     *)
HandleAtomic(msg) ==
  LET old == LineData(msg.line)
      new == [w \in Words |-> 1 - old[w]]
  IN /\ WriteMem(msg.line, msg.be, new)
     /\ misread' = (misread \/ (/\ msg.op = "AtomicLoad" /\ msg.line \notin spoiled
                                /\ \E w \in msg.be : new[w] # last[<<msg.line, w>>]))
     /\ toHome' = IF msg.op = "AtomicStore" THEN toHome
          ELSE Append(toHome, CompData(msg.id, "I", old, Words))

b_transport_rxdat_slave(msg) ==
  /\ IF IsAtomic(msg.op) THEN HandleAtomic(msg)
     ELSE /\ WriteMem(msg.line, msg.be, msg.data)
          /\ UNCHANGED <<toHome, misread>>
  /\ UNCHANGED m_toggle

RunResponsePhase(msg) ==
  /\ toHome' = toHome \o
       (IF msg.m = "Read"
          THEN << CompData(msg.id, "UC", LineData(home.cur.line), Words) >>
        ELSE IF msg.m = "AtomicLoad" THEN << Rsp("DBIDResp", msg.id) >>
        ELSE << Rsp("CompDBIDResp", msg.id) >>)
  /\ UNCHANGED mem

slave_step ==
  LET msg == Head(home.toSN)
      retry == msg.m # "Data" /\ msg.allowRetry /\ ~m_toggle
  IN /\ running = None /\ home.toSN # <<>>
     /\ home' = [home EXCEPT !.toSN = Tail(@)]
     /\ IF msg.m = "Data" THEN b_transport_rxdat_slave(msg)
        ELSE /\ m_toggle' = (IF msg.allowRetry THEN ~m_toggle ELSE m_toggle)
             /\ IF retry
                  THEN /\ toHome' = toHome \o
                            << Rsp("RetryAck", msg.id), Rsp("PCrdGrant", msg.id) >>
                       /\ UNCHANGED mem
                  ELSE RunResponsePhase(msg)
             /\ UNCHANGED misread
     /\ NotStored
     /\ UNCHANGED <<scenario, caches, req, txn, running, asked, up, spoiled,
                    evaded, torn>>

(* TxnProcessor::ProcessResp_SN. What a retry and a credit bring back is a *)
(* copy of the request last sent; neither is forgotten when it was.        *)
WriteDone(h, id) ==
  LET c == h.cur
  IN IF c.gotSnpData THEN ProcessSnpdReq(ReturnID(h, id))
     ELSE IF ~c.ack \/ c.compAckReceived THEN RequestDone(ReturnID(h, id))
     ELSE [h EXCEPT !.cur.writeToSNDone = TRUE]

(* The data of a write. The byte enables of dirty data that came with a    *)
(* snoop are copied for as many bytes as came from the requester, none:    *)
(* what is sent is not initialised, and `whole' is what it happens to be.  *)
SendData(h, id, whole) ==
  LET c == h.cur
      be == IF ~c.gotSnpData THEN c.be ELSE IF whole THEN Words ELSE {}
  IN [h EXCEPT !.toSN = Append(@,
        [m |-> "Data", id |-> id, op |-> IF c.gotSnpData THEN "Write" ELSE c.op,
         line |-> c.line, data |-> c.data, be |-> be])]

(* Data that the slave node sent by way of the home.                       *)
SetupNonDMT(c, dat) ==
  [dat EXCEPT !.st = IF IsAtomic(c.op) THEN "I" ELSE GetSnpRespResult(c)]

ProcessResp_SN(h, msg, whole) ==
  LET credited == [h EXCEPT !.cur.credit = @ \cup {msg.m}]
      request == [m |-> IF msg.id = "sn" /\ IsRead(h.cur.op) /\ ~h.cur.gotSnpData
                          THEN "Read"
                        ELSE IF IsAtomic(h.cur.op) /\ msg.id = "db" THEN h.cur.op
                        ELSE "Write", id |-> msg.id, allowRetry |-> FALSE]
  IN CASE msg.m \in {"RetryAck", "PCrdGrant"} ->
            IF {"RetryAck", "PCrdGrant"} \subseteq credited.cur.credit
              THEN [credited EXCEPT !.toSN = Append(@, request)] ELSE credited
       [] msg.m = "CompDBIDResp" -> WriteDone(SendData(h, msg.id, whole), msg.id)
       [] msg.m = "DBIDResp" -> SendData(h, msg.id, whole)
       [] msg.m = "CompData" /\ IsRead(h.cur.op) ->
            Transmit(h, h.cur.src, "dat",
              IF AllowsDMT(h.cur) THEN msg ELSE SetupNonDMT(h.cur, msg))
       [] msg.m = "CompData" /\ ~IsRead(h.cur.op) ->
            Transmit(RequestDone(ReturnID(h, msg.id)), h.cur.src, "dat",
              SetupNonDMT(h.cur, msg))

(* The store of a write or of an atomic operation counts from here.        *)
slave_to_home ==
  LET msg == Head(toHome)
      c == home.cur
      sends == msg.m \in {"CompDBIDResp", "DBIDResp"}
      stored == IF IsWriteUnique(c.op) THEN c.data
                ELSE [w \in Words |-> 1 - last[<<c.line, w>>]]
  IN /\ running = None /\ toHome # <<>>
     /\ toHome' = Tail(toHome)
     /\ \E whole \in scenario.enabled :
          /\ home' = ProcessResp_SN(home, msg, whole)
          /\ spoiled' = IF sends /\ c.gotSnpData /\ ~whole
               THEN spoiled \cup {c.line} ELSE spoiled
     /\ IF sends /\ ~c.gotSnpData /\ (IsWriteUnique(c.op) \/ IsAtomic(c.op))
          THEN Stored(c.src, {c.line} \X c.be, stored) ELSE NotStored
     /\ UNCHANGED <<scenario, caches, req, txn, running, asked, up, slave,
                    misread, evaded, torn>>

-----------------------------------------------------------------------------
(* The channels of a node to the home. After a message is taken, its       *)
(* thread goes on with the transaction (TxChannel::tx_thread and the       *)
(* Transmitter): it forwards the data, sends the CompAck, or wakes up the  *)
(* thread that waits.                                                      *)

Push(n, channel, msg) == [up[n] EXCEPT ![channel] = Append(@, msg)]
Pop(n, channel) == [up[n] EXCEPT ![channel] = Tail(@)]

Evicts(op) == op \in {"Evict", "WriteBackFull", "WriteBackPtl", "WriteEvictFull"}
EndsRequest(op) ==
  IsNonCoherentRead(op) \/ IsWriteUnique(op) \/ IsAtomic(op) \/ op = "DVMOp"

(* The thread of the node is woken up. An exclusive load that missed       *)
(* starts the sequence now; an exclusive store whose line was not unique   *)
(* has failed, for no response says otherwise.                             *)
Done(n) ==
  LET r == req[n]
      op == txn[n].op
  IN /\ running' = n /\ txn' = [txn EXCEPT ![n] = NoTxn]
     /\ req' = [req EXCEPT ![n].done = EndsRequest(op)]
     /\ m_monitor' = [m_monitor EXCEPT ![n] =
          IF r.excl /\ op = "ReadShared" THEN @ \cup r.cells
          ELSE IF r.excl /\ op = "CleanUnique" THEN @ \ r.cells
          ELSE @]
     /\ evaded' = [evaded EXCEPT ![n] =
          IF Evicts(op) THEN @ \cup CellsOf(txn[n].line) ELSE @]
     /\ UNCHANGED <<slot, m_receivedDVM>>
NotDone == UNCHANGED <<running, txn, req, caches, evaded>>

(* Port_RN_F::b_transport_rxreq: every other request is told to retry.     *)
deliver_req(n) ==
  LET r == Head(up[n].req)
      toggled == [home EXCEPT !.toggle[n] = IF r.allowRetry THEN ~@ ELSE @]
  IN /\ running = None /\ up[n].req # <<>>
     /\ up' = [up EXCEPT ![n] = Pop(n, "req")]
     /\ home' = IF r.allowRetry /\ ~home.toggle[n]
          THEN Transmit(Transmit(toggled, n, "rsp", Rsp("RetryAck", "none")),
                        n, "rsp", Rsp("PCrdGrant", "none"))
          ELSE [toggled EXCEPT !.reqList = Append(@, r)]
     /\ UNCHANGED <<scenario, caches, req, txn, running, asked, toHome, slave,
                    history>>

(* The answer to a snoop, then the line it forwards. A response without    *)
(* data has no byte enables to copy those of the line into.                *)
deliver_answer(n, channel) ==
  LET msg == Head(up[n][channel])
      line == Slot(n, msg.snp.line)
  IN /\ running = None /\ up[n][channel] # <<>> /\ msg.m = "Answer"
     /\ home' = ProcessAnswer(home, n, msg.a, line)
     /\ \E whole \in IF msg.a.fwd = "UC" \/ msg.a.fwd = "UD"
                       THEN scenario.enabled ELSE {TRUE} :
          up' = [up EXCEPT ![n] =
            IF msg.a.fwd = "none" THEN Pop(n, channel)
            ELSE [Pop(n, channel) EXCEPT !.dat = Append(@,
                    [m |-> "Forward", to |-> msg.snp.src,
                     dat |-> CompData(n, msg.a.fwd, line.data,
                                      IF whole THEN Words ELSE {})])]]
     /\ spoiled' = IF msg.a.fwd # "none" /\ msg.a.pd
          THEN spoiled \cup {msg.snp.line} ELSE spoiled
     /\ NotDone
     /\ UNCHANGED <<scenario, asked, toHome, slave, last, since, misread,
                    reserved, torn>>

deliver_forward(n) ==
  LET msg == Head(up[n].dat)
  IN /\ running = None /\ up[n].dat # <<>> /\ msg.m = "Forward"
     /\ up' = [up EXCEPT ![n] = Pop(n, "dat")]
     /\ home' = Transmit(home, msg.to, "dat", msg.dat)
     /\ NotDone
     /\ UNCHANGED <<scenario, asked, toHome, slave, last, spoiled, since, misread,
                    reserved, torn>>

deliver_compack(n) ==
  LET msg == Head(up[n].rsp)
  IN /\ running = None /\ up[n].rsp # <<>> /\ msg.m = "CompAck"
     /\ up' = [up EXCEPT ![n] = Pop(n, "rsp")]
     /\ home' = ProcessCompAck(home, msg.id)
     /\ Done(n)
     /\ UNCHANGED <<scenario, asked, toHome, slave, last, spoiled, since, misread,
                    reserved, torn>>

deliver_data(n) ==
  LET msg == Head(up[n].dat)
      sent == Pop(n, "dat")
  IN /\ running = None /\ up[n].dat # <<>> /\ msg.m = "WriteData"
     /\ home' = ProcessDat(home, msg)
     /\ IF txn[n].ack
          THEN /\ up' = [up EXCEPT ![n] =
                    [sent EXCEPT !.rsp = Append(@, Rsp("CompAck", msg.id))]]
               /\ NotDone
          ELSE /\ up' = [up EXCEPT ![n] = sent]
               /\ IF txn[n].comp THEN Done(n) ELSE NotDone
     /\ UNCHANGED <<scenario, asked, toHome, slave, last, spoiled, since, misread,
                    reserved, torn>>

-----------------------------------------------------------------------------
(* What a node receives.                                                   *)

Received(n, channel) ==
  /\ running = None /\ home.down[n][channel] # <<>>
  /\ home' = [home EXCEPT !.down[n] = [@ EXCEPT ![channel] = Tail(@)]]
  /\ UNCHANGED <<scenario, asked, toHome, slave, last, since, reserved, torn>>

(* b_transport_rxrsp, a retry and a credit: the request goes out again.    *)
receive_retry(n) ==
  LET msg == Head(home.down[n].rsp)
      credit == txn[n].credit \cup {msg.m}
  IN /\ Received(n, "rsp") /\ msg.m \in {"RetryAck", "PCrdGrant"}
     /\ txn' = [txn EXCEPT ![n].credit = credit]
     /\ up' = IF credit # {"RetryAck", "PCrdGrant"} THEN up
          ELSE [up EXCEPT ![n] = Push(n, "req",
                 [op |-> txn[n].op, line |-> txn[n].line, ack |-> txn[n].ack,
                  src |-> n, allowRetry |-> FALSE])]
     /\ UNCHANGED <<caches, req, running, spoiled, misread, evaded>>

(* DatalessTxn::HandleRxRsp: a Comp makes the line unique and clean        *)
(* whatever became of it in the meantime, and a MakeUnique empties it.     *)
Completed(line, t) ==
  [line EXCEPT !.valid = TRUE, !.tag = t.line, !.shared = FALSE, !.dirty = FALSE,
     !.be = IF t.op = "MakeUnique" THEN {} ELSE @,
     !.data = IF t.op = "MakeUnique" THEN Zero ELSE @]

receive_comp(n) ==
  LET msg == Head(home.down[n].rsp)
      t == txn[n]
      line == Slot(n, t.line)
  IN /\ Received(n, "rsp") /\ msg.m = "Comp"
     /\ CASE t.op \in {"Evict", "DVMOp"} ->
               Done(n) /\ UNCHANGED <<up, spoiled>>
          [] t.op \in {"CleanUnique", "MakeUnique"} ->
               /\ SetSlot(n, t.line, Completed(line, t))
               /\ up' = [up EXCEPT ![n] = Push(n, "rsp", Rsp("CompAck", msg.id))]
               /\ spoiled' = IF t.op = "CleanUnique"
                                  /\ (~line.valid \/ (line.dirty /\ req[n].excl))
                    THEN spoiled \cup {t.line} ELSE spoiled
               /\ UNCHANGED <<m_monitor, m_receivedDVM, txn, running, req, evaded>>
     /\ UNCHANGED misread

(* WriteTxn, AtomicTxn and DVMOpTxn::HandleRxRsp, SetupWriteDat, GetResp   *)
(* and UpdateLineStatus: the data was copied when the transaction began,   *)
(* what is said of it depends on the line now. The mutant writes back what *)
(* a snoop took away.                                                      *)
MutantWriteDataStale(n, t) ==
  LET line == Slot(n, t.line)
  IN [data |-> t.data, be |-> t.be, pd |-> IsCopyBack(t.op)]

WriteData(n, t) ==
  LET line == Slot(n, t.line)
      lost == IsCopyBack(t.op) /\ ~line.valid
  IN [data |-> t.data, be |-> IF lost THEN {} ELSE t.be,
      pd |-> IsCopyBack(t.op) /\ ~lost /\ line.dirty]

receive_dbid(n) ==
  LET msg == Head(home.down[n].rsp)
      t == txn[n]
      d == WriteData(n, t)
      line == Slot(n, t.line)
  IN /\ Received(n, "rsp") /\ msg.m \in {"CompDBIDResp", "DBIDResp"}
     /\ txn' = [txn EXCEPT ![n].comp = @ \/ msg.m = "CompDBIDResp"]
     /\ up' = [up EXCEPT ![n] = Push(n, "dat",
          [m |-> "WriteData", id |-> msg.id, pd |-> d.pd, data |-> d.data,
           be |-> d.be])]
     /\ IF IsCopyBack(t.op)
          THEN SetSlot(n, t.line,
                 IF t.op = "WriteCleanFull" THEN [line EXCEPT !.dirty = FALSE]
                 ELSE [line EXCEPT !.valid = FALSE])
          ELSE UNCHANGED slot
     /\ UNCHANGED <<m_monitor, m_receivedDVM, req, running, spoiled, misread,
                    evaded>>

(* ReadTxn and AtomicTxn::HandleRxDat, ParseReadResp. All bytes of a line  *)
(* count as read, those that did not come too.                             *)
Installed(line, l, d) ==
  [valid |-> d.st # "I", tag |-> l, shared |-> d.st \in {"SC", "SD"},
   dirty |-> d.st \in {"UD", "SD"}, be |-> Words,
   data |-> Merge(line.data, d.data, d.be)]

receive_data(n) ==
  LET d == Head(home.down[n].dat)
      t == txn[n]
      fresh == since[n] \cap req[n].cells
  IN /\ Received(n, "dat")
     /\ IF t.op = "AtomicLoad"
          THEN Done(n) /\ UNCHANGED <<up, spoiled, misread>>
          ELSE /\ up' = [up EXCEPT ![n] = Push(n, "rsp", Rsp("CompAck", d.id))]
               /\ IF IsNonCoherentRead(t.op) THEN UNCHANGED slot
                  ELSE SetSlot(n, t.line, Installed(Slot(n, t.line), t.line, d))
               /\ spoiled' = IF d.be # Words THEN spoiled \cup {t.line} ELSE spoiled
               /\ misread' = (misread \/ (/\ IsNonCoherentRead(t.op)
                    /\ d.be = Words /\ t.line \notin spoiled
                    /\ \E c \in fresh : d.data[c[2]] # last[c]))
               /\ UNCHANGED <<m_monitor, m_receivedDVM, txn, req, running, evaded>>

(* b_transport_rxsnp. A cache that does not have the line says so; one     *)
(* that loses it forgets the exclusive sequence of its first word.         *)
InCache(n, l) == Slot(n, l).valid /\ Slot(n, l).tag = l

AnswerMsg(s, a) == [m |-> "Answer", a |-> a, snp |-> s]
receive_snoop(n) ==
  LET s == Head(home.down[n].snp)
      line == Slot(n, s.line)
      status == IF InCache(n, s.line) THEN GetStatus(line) ELSE "INV"
      a == HandleSnp(s, status)
      after == Snooped(s, line)
      part == req[s.src].cells # CellsOf(s.line)
  IN /\ Received(n, "snp") /\ s.m # "SnpDVMOp"
     /\ IF status = "INV" THEN UNCHANGED <<slot, m_monitor>>
        ELSE /\ SetSlot(n, s.line, after)
             /\ m_monitor' = [m_monitor EXCEPT ![n] =
                  IF after.valid THEN @ ELSE @ \ {<<s.line, 0>>}]
     /\ up' = [up EXCEPT ![n] =
          Push(n, IF a.data = "none" THEN "rsp" ELSE "dat", AnswerMsg(s, a))]
     /\ spoiled' = IF status # "INV" /\ s.m = "SnpMakeInvalid" /\ line.dirty /\ part
          THEN spoiled \cup {s.line} ELSE spoiled
     /\ UNCHANGED <<m_receivedDVM, txn, req, running, misread, evaded>>

(* A DVM snoop comes in two halves with one identifier; the second is      *)
(* answered.                                                               *)
receive_dvm(n) ==
  LET s == Head(home.down[n].snp)
  IN /\ Received(n, "snp") /\ s.m = "SnpDVMOp"
     /\ m_receivedDVM' = [m_receivedDVM EXCEPT ![n] = ~@]
     /\ up' = IF m_receivedDVM[n]
          THEN [up EXCEPT ![n] = Push(n, "rsp", AnswerMsg(s, SnpResp(FALSE)))]
          ELSE up
     /\ UNCHANGED <<slot, m_monitor, txn, req, running, spoiled, misread, evaded>>

-----------------------------------------------------------------------------
(* The cache of a node, which its thread goes through again after each     *)
(* transaction: HandleLoad and HandleStore (kinds load, store, write where *)
(* the dice say so of a store, sparse where a store of a whole line has    *)
(* bytes disabled), HandleAtomic, HandleDVMOperation, and the region that  *)
(* is not shareable.                                                       *)

b_transport(n) ==
  /\ running = None /\ req[n] = NoReq /\ asked < scenario.bound
  /\ \E r \in scenario.requests[n] : req' = [req EXCEPT ![n] = r]
  /\ running' = n /\ asked' = asked + 1
  /\ since' = [since EXCEPT ![n] = Cells]
  /\ UNCHANGED <<scenario, caches, txn, up, home, toHome, slave, last, spoiled,
                 misread, reserved, evaded, torn>>

LineOf(n) == req[n].line
NonShareable(n) == LineOf(n) \in scenario.nonshareable
Working(n, kinds) ==
  /\ running = n /\ req[n].kind \in kinds /\ ~req[n].done
  /\ UNCHANGED <<scenario, asked, home, toHome, slave, misread>>
Finish(n) ==
  /\ req' = [req EXCEPT ![n].done = TRUE]
  /\ UNCHANGED <<running, txn, up>>

(* The request goes out and the thread waits.                              *)
Process(n, t) ==
  /\ txn' = [txn EXCEPT ![n] = t]
  /\ up' = [up EXCEPT ![n] = Push(n, "req",
       [op |-> t.op, line |-> t.line, ack |-> t.ack, src |-> n,
        allowRetry |-> TRUE])]
  /\ running' = None

(* A request that is done. An exclusive load reserves its words.           *)
return(n) ==
  LET excl == req[n].excl /\ req[n].kind = "load"
  IN /\ running = n /\ req[n].done
     /\ running' = None /\ req' = [req EXCEPT ![n] = NoReq]
     /\ reserved' = [reserved EXCEPT ![n] = IF excl THEN @ \cup req[n].cells ELSE @]
     /\ evaded' = [evaded EXCEPT ![n] =
          IF excl THEN @ \ {c \in req[n].cells : c[2] = 0} ELSE @]
     /\ UNCHANGED <<scenario, caches, txn, asked, up, home, toHome, slave, last,
                    spoiled, since, misread, torn>>

(* InvalidateCacheLine: what makes room for another line.                  *)
Evictions(line) ==
  LET status == GetStatus(line)
      Back(op) == Txn(op, line.tag, FALSE, line.data, line.be)
  IN (IF line.dirty /\ line.be = Words THEN {Back("WriteCleanFull")} ELSE {})
     \cup (IF status = "UDP" THEN {Back("WriteBackPtl")}
           ELSE IF line.dirty THEN {Back("WriteBackFull")}
           ELSE {Back("Evict")})
     \cup (IF status = "UC" THEN {Back("WriteEvictFull")} ELSE {})

InvalidateCacheLine(n) ==
  LET line == Slot(n, LineOf(n))
  IN /\ line.valid
     /\ \E t \in Evictions(line) :
          /\ Process(n, t)
          /\ SetSlot(n, LineOf(n), [line EXCEPT !.valid = t.op # "Evict"])
     /\ NotStored
     /\ UNCHANGED <<m_monitor, m_receivedDVM, req, spoiled, evaded, torn>>

Issue(n, t) ==
  /\ Process(n, t)
  /\ NotStored /\ UNCHANGED <<caches, req, spoiled, evaded, torn>>
Clean(op, l, ack) == Txn(op, l, ack, Zero, {})

(* HandleLoad.                                                             *)
Loads(n) ==
  Working(n, {"load"}) /\ ~NonShareable(n)
HasFull(n) == InCache(n, LineOf(n)) /\ Slot(n, LineOf(n)).be = Words
LoadHit(n) ==
  /\ Loads(n) /\ HasFull(n) /\ Finish(n)
  /\ NotStored /\ UNCHANGED <<caches, spoiled, evaded, torn>>
LoadEvicts(n) == Loads(n) /\ ~HasFull(n) /\ InvalidateCacheLine(n)
LoadMiss(n) ==
  /\ Loads(n) /\ ~HasFull(n) /\ ~Slot(n, LineOf(n)).valid
  /\ \E op \in IF req[n].excl THEN {"ReadShared"} ELSE scenario.reads :
       Issue(n, Clean(op, LineOf(n), TRUE))

(* HandleStore. A store writes the other value to its words.               *)
Stores(n) ==
  Working(n, {"store", "write", "sparse"}) /\ ~NonShareable(n)
(* The mutant does not ask the monitor.                                    *)
MutantMonitorIsSet(n) == TRUE
MonitorIsSet(n) == req[n].excl => req[n].cells \subseteq m_monitor[n]
Whole(n) == req[n].cells = CellsOf(LineOf(n)) \/ req[n].kind = "sparse"
StoredWords(n) == {c[2] : c \in req[n].cells}
StoredData(n) == [w \in Words |-> 1 - last[<<LineOf(n), w>>]]

StoreFails(n) ==
  /\ Stores(n) /\ ~MonitorIsSet(n) /\ Finish(n)
  /\ NotStored /\ UNCHANGED <<caches, spoiled, evaded, torn>>

(* The mutant takes a shared line for a unique one.                        *)
MutantIsUnique(n) == InCache(n, LineOf(n))
IsUnique(n) == InCache(n, LineOf(n)) /\ ~Slot(n, LineOf(n)).shared

(* The mutant does not mark the line dirty.                                *)
MutantWriteLine(line, data, be) ==
  [line EXCEPT !.data = Merge(line.data, data, be), !.be = @ \cup be]
WriteLine(line, data, be) ==
  [line EXCEPT !.data = Merge(line.data, data, be), !.be = @ \cup be,
     !.dirty = TRUE]

StoreHit(n) ==
  LET r == req[n]
  IN /\ Stores(n) /\ MonitorIsSet(n) /\ IsUnique(n) /\ Finish(n)
     /\ SetSlot(n, r.line,
          WriteLine(Slot(n, r.line), StoredData(n), StoredWords(n)))
     /\ Stored(n, r.cells, StoredData(n))
     /\ torn' = (torn \/ (r.excl /\ ~(r.cells \subseteq reserved[n] \cup evaded[n])))
     /\ m_monitor' = [m_monitor EXCEPT ![n] = IF r.excl THEN @ \ r.cells ELSE @]
     /\ UNCHANGED <<m_receivedDVM, spoiled, evaded>>

StoreShared(n) ==
  /\ Stores(n) /\ MonitorIsSet(n) /\ InCache(n, LineOf(n)) /\ ~IsUnique(n)
  /\ Issue(n, Clean("CleanUnique", LineOf(n), TRUE))

StoreMiss(n) ==
  /\ Stores(n) /\ MonitorIsSet(n) /\ ~InCache(n, LineOf(n))
StoreEvicts(n) ==
  StoreMiss(n) /\ req[n].kind # "write" /\ InvalidateCacheLine(n)
StoreAllocates(n) ==
  /\ StoreMiss(n) /\ req[n].kind # "write" /\ ~Slot(n, LineOf(n)).valid
  /\ Issue(n, Clean(IF Whole(n) THEN "MakeUnique" ELSE "ReadUnique", LineOf(n),
                    TRUE))

(* A whole line is written as such only when it comes with byte enables,   *)
(* which is up to the caller.                                              *)
WriteThrough(n, acks) ==
  \E ack \in acks, enables \in BOOLEAN :
    Issue(n, Txn(IF enables /\ StoredWords(n) = Words THEN "WriteUniqueFull"
                 ELSE "WriteUniquePtl",
                 LineOf(n), ack, StoredData(n), StoredWords(n)))
StoreWritesUnique(n) ==
  StoreMiss(n) /\ req[n].kind = "write" /\ WriteThrough(n, BOOLEAN)

(* The region that is not shareable; atomic operations, which leave the    *)
(* line of the requester alone; operations on virtual memory.              *)
LoadNoSnp(n) ==
  /\ Working(n, {"load"}) /\ NonShareable(n)
  /\ Issue(n, Clean("ReadNoSnp", LineOf(n), TRUE))
StoreNoSnp(n) ==
  /\ Working(n, {"store", "write", "sparse"}) /\ NonShareable(n)
  /\ WriteThrough(n, {FALSE})
Atomic(n) ==
  LET l == LineOf(n)
  IN /\ Working(n, {"AtomicStore", "AtomicLoad"})
     /\ Process(n, Txn(req[n].kind, l, FALSE, Zero, StoredWords(n)))
     /\ spoiled' = IF InCache(n, l) THEN spoiled \cup {l} ELSE spoiled
     /\ NotStored /\ UNCHANGED <<caches, req, evaded, torn>>
DVMOperation(n) ==
  Working(n, {"DVMOp"}) /\ Issue(n, Clean("DVMOp", 0, FALSE))

Access(n) ==
  \/ LoadHit(n) \/ LoadEvicts(n) \/ LoadMiss(n) \/ LoadNoSnp(n)
  \/ StoreFails(n) \/ StoreHit(n) \/ StoreShared(n) \/ StoreEvicts(n)
  \/ StoreAllocates(n) \/ StoreWritesUnique(n) \/ StoreNoSnp(n)
  \/ Atomic(n) \/ DVMOperation(n) \/ return(n)

Next ==
  \/ req_ordering_thread \/ slave_step \/ slave_to_home
  \/ \E n \in Nodes :
       \/ b_transport(n) \/ Access(n)
       \/ deliver_req(n) \/ deliver_answer(n, "rsp") \/ deliver_answer(n, "dat")
       \/ deliver_forward(n) \/ deliver_compack(n) \/ deliver_data(n)
       \/ receive_retry(n) \/ receive_comp(n) \/ receive_dbid(n)
       \/ receive_data(n) \/ receive_snoop(n) \/ receive_dvm(n)

Spec == Init /\ [][Next]_vars

-----------------------------------------------------------------------------
Flight(channel) == UNION {ToSet(up[n][channel]) : n \in Nodes}
Down(channel) == UNION {ToSet(home.down[n][channel]) : n \in Nodes}

(* Type correctness: slots, requests and what the home keeps.              *)
TypeOK ==
  /\ \A n \in Nodes :
       /\ \A i \in DOMAIN slot[n] : slot[n][i] \in
            [valid : BOOLEAN, tag : Lines \cup {0}, shared : BOOLEAN,
             dirty : BOOLEAN, be : SUBSET Words, data : [Words -> 0 .. 1]]
       /\ m_monitor[n] \subseteq Cells /\ home.filter[n] \subseteq Lines
       /\ req[n] = NoReq \/ req[n].cells \subseteq Cells
  /\ m_receivedDVM \in [Nodes -> BOOLEAN] /\ running \in Nodes \cup {None}
  /\ home.ids \subseteq Nodes \cup {"sn", "db"}
  /\ mem \in [Cells -> 0 .. 1] /\ last \in [Cells -> 0 .. 1]
  /\ m_toggle \in BOOLEAN /\ misread \in BOOLEAN /\ torn \in BOOLEAN
  /\ spoiled \subseteq Lines

Copies(l) == {n \in Nodes : InCache(n, l)}
Current(l) == home.cur # NoCur /\ home.cur.line = l

(* Two caches never hold a line that one of them holds alone.              *)
UniqueAlone ==
  \A l \in Lines : \A n \in Copies(l) :
    Slot(n, l).shared \/ Copies(l) = {n}

(* Every byte of a copy is the last one stored, until the code loses track *)
(* of the line.                                                            *)
FreshCopies ==
  \A l \in Lines \ spoiled : \A n \in Copies(l) :
    \A w \in Slot(n, l).be : Slot(n, l).data[w] = last[<<l, w>>]

(* The memory has the last stores to a line no cache holds dirty, when no  *)
(* transaction is about it and no thread works on it.                      *)
FreshMemory ==
  \A l \in Lines \ spoiled :
    \/ running # None /\ req[running].line = l
    \/ Current(l) \/ \E n \in Nodes : txn[n].op # "none" /\ txn[n].line = l
    \/ \E n \in Copies(l) : Slot(n, l).dirty
    \/ \E i \in DOMAIN home.toSN : home.toSN[i].m = "Data"
    \/ \A w \in Words : mem[<<l, w>>] = last[<<l, w>>]

(* A read that keeps no copy brings the word as of its request or later.   *)
ReadOnceFresh == ~misread

(* The snoop filter of a port knows every line its cache holds.            *)
FilterCovers ==
  \A l \in Lines : \A n \in Copies(l) :
    l \in home.filter[n] \/ (Current(l) /\ home.cur.src = n)

(* A request leaves no transaction identifier of the home behind.          *)
IdsReturned == home.cur = NoCur => home.ids = {}

(* The home waits for every CompAck it is sent, and the identifier is that *)
(* of the request it is for.                                               *)
AckExpected ==
  \A msg \in Flight("rsp") : msg.m = "CompAck" =>
    /\ home.cur # NoCur /\ home.cur.waitingForCompAck /\ msg.id \in home.ids

(* While a node or the home has a transaction, some message is on its way. *)
NotStuck ==
  \/ running # None \/ home.toSN # <<>> \/ toHome # <<>>
  \/ home.cur = NoCur /\ home.reqList # <<>>
  \/ \E channel \in {"req", "rsp", "dat"} : Flight(channel) # {}
  \/ \E channel \in {"rsp", "dat", "snp"} : Down(channel) # {}
  \/ home.cur = NoCur /\ \A n \in Nodes : req[n] = NoReq

(* An exclusive store goes through only if nobody stored to its word since *)
(* the exclusive load, where the monitor can tell.                         *)
ExclusiveWhileHeld == ~torn

(* When an operation on virtual memory completes, every other node has got *)
(* both halves of its snoop.                                               *)
DvmSynced ==
  \A n \in Nodes : \A i \in DOMAIN home.down[n].rsp :
    home.down[n].rsp[i].m = "Comp" /\ txn[n].op = "DVMOp" =>
      \A m \in Nodes \ {n} :
        /\ m_receivedDVM[m] => home.cur.op = "DVMOp" /\ home.cur.src # n
        /\ \A j \in DOMAIN home.down[m].snp : home.down[m].snp[j].src # n

=============================================================================
