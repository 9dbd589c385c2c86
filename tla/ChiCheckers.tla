---------------------------- MODULE ChiCheckers ----------------------------
(***************************************************************************)
(* The protocol checker of a CHI request node: whether requests have the   *)
(* attributes their opcode asks for, whether every flit belongs to a       *)
(* transaction or a snoop that is waiting for it, whether a request that   *)
(* was told to retry is sent again with a credit, and whether flits are    *)
(* sent with link credits.                                                 *)
(***************************************************************************)
EXTENDS CheckedChannels

CONSTANTS
  TxnIDs,       (* 0 .. NUM_TXNIDS - 1.                                    *)
  Types,        (* Types of protocol credits.                              *)
  MAX_CREDITS,
  Unsigned,     (* 2^32, the values of m_numPCredits.                      *)
  Extracted     (* 2^12: the addresses that the mask of Extract leaves.    *)

VARIABLES
  m_txn, m_snpFwdList, m_snpStashList, m_snpList, (* checker_txn_structures. *)
  m_reqs, m_completers,                           (* checker_request_retry.  *)
  m_credits                                       (* checker_ch_lcredits.    *)

lists == <<m_txn, m_snpFwdList, m_snpStashList, m_snpList, m_reqs,
           m_completers, m_credits>>
vars == <<channels, monitors, lists, errors>>

Flits == {"txreq", "txrsp", "txdat", "rxrsp", "rxdat", "rxsnp"}
CreditOf == [txreq |-> "txreqlcrd", txrsp |-> "txrsplcrd",
             txdat |-> "txdatlcrd", rxrsp |-> "rxrsplcrd",
             rxdat |-> "rxdatlcrd", rxsnp |-> "rxsnplcrd"]

NoTxns == [i \in TxnIDs |-> Nothing]
NoCredits == [c \in Flits |-> 0]

Init ==
  /\ InitChannels
  /\ m_txn = NoTxns /\ m_snpFwdList = <<>> /\ m_snpStashList = <<>>
  /\ m_snpList = <<>> /\ m_reqs = NoTxns /\ m_completers = <<>>
  /\ m_credits = NoCredits

(* The checks that the configuration enables.                              *)
Report(check, wrong) == IF check \in scenario.checks THEN wrong ELSE {}
-----------------------------------------------------------------------------
(* The flits.                                                              *)

Reads == {"ReadNoSnp", "ReadOnce", "ReadOnceCleanInvalid",
          "ReadOnceMakeInvalid", "ReadClean", "ReadNotSharedDirty",
          "ReadShared", "ReadUnique"}
Dataless == {"CleanUnique", "MakeUnique", "Evict", "StashOnceShared",
             "StashOnceUnique", "CleanShared", "CleanSharedPersist",
             "CleanInvalid", "MakeInvalid"}
CopyBacks == {"WriteBackPtl", "WriteBackFull", "WriteEvictFull",
              "WriteCleanFull"}
WritesNoSnp == {"WriteNoSnpPtl", "WriteNoSnpFull"}
WriteUniques == {"WriteUniquePtl", "WriteUniqueFull"}
StashWrites == {"WriteUniquePtlStash", "WriteUniqueFullStash"}
Stashes == {"StashOnceShared", "StashOnceUnique"}
Writes == CopyBacks \cup WritesNoSnp \cup WriteUniques \cup StashWrites
(* Of the opcodes of the atomic loads and stores, the first and another.   *)
AtomicStores == {"AtomicStore", "AtomicStoreClr"}
Atomics == AtomicStores \cup {"AtomicLoad", "AtomicLoadClr", "AtomicSwap",
                              "AtomicCompare"}
NamedAtomics == {"AtomicStore", "AtomicLoad", "AtomicSwap", "AtomicCompare"}
Requests == Reads \cup Dataless \cup Writes \cup Atomics
            \cup {"ReqLCrdReturn", "PCrdReturn", "DVMOp", "PrefetchTgt"}

SnpFwds == {"SnpSharedFwd", "SnpCleanFwd", "SnpOnceFwd",
            "SnpNotSharedDirtyFwd", "SnpUniqueFwd"}
SnpStashes == {"SnpUniqueStash", "SnpMakeInvalidStash", "SnpStashUnique",
               "SnpStashShared"}
Snoops == SnpFwds \cup SnpStashes \cup
          {"SnpLCrdReturn", "SnpShared", "SnpClean", "SnpOnce",
           "SnpNotSharedDirty", "SnpUnique", "SnpCleanShared",
           "SnpCleanInvalid", "SnpMakeInvalid", "SnpDVMOp"}

SnoopData == {"SnpRespData", "SnpRespDataPtl", "SnpRespDataFwded"}
SnoopRsps == {"SnpResp", "SnpRespFwded"}
WriteData == {"CopyBackWrData", "NonCopyBackWrData", "NCBWrDataCompAck"}
Datas == SnoopData \cup WriteData \cup
         {"DataLCrdReturn", "CompData", "WriteDataCancel", "DataSepResp"}
Rsps == SnoopRsps \cup
        {"RespLCrdReturn", "CompAck", "RetryAck", "Comp", "CompDBIDResp",
         "DBIDResp", "PCrdGrant", "ReadReceipt", "RespSepData"}

(* The address of a request, of which the mask, an int shifted by the 44   *)
(* bits of the field, leaves the low bits.                                 *)
Address(req) == req.addr % Extracted
-----------------------------------------------------------------------------
(* checker_requests.                                                       *)

CheckExpCompAck(req) ==
  /\ req.op \in {"ReadClean", "ReadNotSharedDirty", "ReadShared", "ReadUnique",
                 "CleanUnique", "MakeUnique"} => req.ack
  /\ req.op \in (Dataless \ {"CleanUnique", "MakeUnique"}) \cup CopyBacks
                \cup NamedAtomics \cup WritesNoSnp => ~req.ack

(* The mutant takes the stash requests for requests that are not snooped.  *)
MutantSnpAttr(req) ==
  /\ req.op \in (Reads \ {"ReadNoSnp"}) \cup CopyBacks \cup WriteUniques
                \cup {"CleanUnique", "MakeUnique", "Evict"} => req.snp
  /\ req.op \in WritesNoSnp \cup {"ReadNoSnp"} => ~req.snp

CheckSnpAttr(req) ==
  /\ req.op \in (Reads \ {"ReadNoSnp"}) \cup CopyBacks \cup WriteUniques
                \cup StashWrites \cup Stashes
                \cup {"CleanUnique", "MakeUnique", "Evict"} => req.snp
  /\ req.op \in WritesNoSnp \cup {"ReadNoSnp"} => ~req.snp

CheckOrder(req) ==
  /\ req.order # 1
  /\ req.order # 0 => req.op \in NamedAtomics \cup WriteUniques \cup
       {"ReadNoSnp", "ReadOnce", "ReadOnceCleanInvalid", "ReadOnceMakeInvalid"}

CheckAllowRetry(req) ==
  req.retry => req.op \notin {"PrefetchTgt", "PCrdReturn"} /\ req.pcrd = 0

(* The operand of a compare is half of what is sent; what is halved is the *)
(* logarithm.                                                              *)
CheckAddress(req) ==
  req.op \in Atomics =>
    LET log == IF req.op = "AtomicCompare" THEN req.size \div 2 ELSE req.size
    IN Align(Address(req), 2^log) = Address(req)

(* A compare has to pass both tests.                                       *)
CheckSize(req) ==
  /\ req.size # 7
  /\ req.op = "AtomicCompare" => req.size <= 5
  /\ req.op \in Atomics => req.size <= 3

CheckDVM(req) ==
  req.op = "DVMOp" =>
    /\ req.size <= 3 /\ req.ret = 0 /\ ~req.stash /\ req.rtx = 0
    /\ ~req.ns /\ ~req.likely
    /\ req.order = 0 /\ req.mem = {} /\ ~req.snp /\ ~req.excl

CheckExcl(req) ==
  req.excl => req.op \in Atomics \cup WritesNoSnp \cup
                {"ReadClean", "ReadNotSharedDirty", "ReadShared", "CleanUnique",
                 "ReadNoSnp"}

CheckRequest(req) ==
  When(req.op \notin Requests, "req opcode")
  \cup When(~CheckExpCompAck(req), "ExpCompAck")
  \cup When(~CheckSnpAttr(req), "SnpAttr") \cup When(~CheckOrder(req), "Order")
  \cup When(~CheckAllowRetry(req), "AllowRetry")
  \cup When(~CheckAddress(req), "Address") \cup When(~CheckSize(req), "Size")
  \cup When(~CheckDVM(req), "DVMOp") \cup When(~CheckExcl(req), "Excl")

CheckSnoopRequests(snp) ==
  When(snp.op \notin Snoops, "snp opcode")
  \cup When(snp.op = "SnpDVMOp" /\ ~(/\ snp.fwdNID = 0 /\ ~snp.ns
                                     /\ ~snp.nosd /\ ~snp.ret), "SnpDVMOp")
-----------------------------------------------------------------------------
(* checker_txn_structures. A transaction is known by what it still has to  *)
(* see; it is done when it has seen everything.                            *)

Begin(req) ==
  LET ack == IF req.ack THEN {"Ack"} ELSE {}
      ordered == req.order >= 2
      t == [id |-> req.id, home |-> -1, dbid |-> 0, sep |-> TRUE]
  IN CASE req.op \in Reads ->
            [t EXCEPT !.sep = req.ack \/ ~ordered] @@
            [kind |-> "read",
             missing |-> {"Rsp", "Data"} \cup ack
                         \cup (IF ordered THEN {"Receipt"} ELSE {})]
       [] req.op \in Dataless ->
            t @@ [kind |-> "dataless", missing |-> {"Comp"} \cup ack]
       [] req.op \in Writes \cup AtomicStores \cup {"DVMOp"} ->
            t @@ [kind |-> "write", missing |-> {"DBID", "Comp", "TxDat"} \cup ack]
       [] req.op \in Atomics \ AtomicStores ->
            t @@ [kind |-> "atomic", missing |-> {"DBID", "Data", "TxDat"}]
       [] OTHER -> Nothing

(* What a flit brings to transaction t: HandleRxDat, HandleRxRsp,          *)
(* HandleTxDat and HandleTxRsp.                                            *)

RxDat(t, op) ==
  CASE op = "CompData" /\ t.kind = "read" -> {"Rsp", "Data"}
    [] op = "CompData" /\ t.kind = "atomic" -> {"Data"}
    [] op = "DataSepResp" /\ t.kind = "read" /\ t.sep -> {"Data"}
    [] OTHER -> {}

(* The mutant takes the response of separate data for that of any read.    *)
MutantRxRsp(t, op) ==
  CASE op = "RespSepData" /\ t.kind = "read" -> {"Rsp"}
    [] op = "ReadReceipt" /\ t.kind = "read" -> {"Receipt"}
    [] op = "Comp" /\ t.kind \in {"dataless", "write"} -> {"Comp"}
    [] op = "DBIDResp" /\ t.kind \in {"write", "atomic"} -> {"DBID"}
    [] op = "CompDBIDResp" /\ t.kind = "write" -> {"Comp", "DBID"}
    [] OTHER -> {}

RxRsp(t, op) ==
  CASE op = "RespSepData" /\ t.kind = "read" /\ t.sep -> {"Rsp"}
    [] op = "ReadReceipt" /\ t.kind = "read" -> {"Receipt"}
    [] op = "Comp" /\ t.kind \in {"dataless", "write"} -> {"Comp"}
    [] op = "DBIDResp" /\ t.kind \in {"write", "atomic"} -> {"DBID"}
    [] op = "CompDBIDResp" /\ t.kind = "write" -> {"Comp", "DBID"}
    [] OTHER -> {}

TxDat(t, op) ==
  CASE op = "NonCopyBackWrData" /\ t.kind \in {"atomic", "write"} -> {"TxDat"}
    [] op = "CopyBackWrData" /\ t.kind = "write" -> {"TxDat"}
    [] op = "NCBWrDataCompAck" /\ t.kind = "write" -> {"TxDat", "Ack"}
    [] OTHER -> {}

TxRsp(t, op) == IF op = "CompAck" /\ t.kind # "atomic" THEN {"Ack"} ELSE {}

(* A write takes its data more than once, and together with an             *)
(* acknowledgement that nobody asked for.                                  *)
Takes(t, parts) ==
  /\ t # Nothing /\ parts # {}
  /\ parts \subseteq t.missing \/ (t.kind = "write" /\ "TxDat" \in parts)

(* Transaction t when it has taken `parts' from flit f. What was received  *)
(* tells the node and the identifier of what is sent.                      *)
After(t, parts, f, received) ==
  LET left == t.missing \ (parts \cup
                (IF f.op = "RespSepData" THEN {"Receipt"} ELSE {}))
  IN IF left = {} THEN Nothing
     ELSE IF received /\ f.op # "ReadReceipt"
             /\ ~(t.kind = "atomic" /\ f.op = "CompData")
       THEN [t EXCEPT !.missing = left, !.dbid = f.dbid,
                      !.home = IF f.op = "CompData" THEN f.home ELSE f.src]
       ELSE [t EXCEPT !.missing = left]

(* GetTxnWithIDs.                                                          *)
TxnWith(txn, home, dbid) ==
  LET here == {i \in TxnIDs : /\ txn[i] # Nothing /\ txn[i].home = home
                              /\ txn[i].dbid = dbid}
  IN IF here = {} THEN -1 ELSE CHOOSE i \in here : \A j \in here : i <= j

(* The snoops: forwarding, stashing and other ones.                        *)

First(here) == IF here = {} THEN 0 ELSE CHOOSE i \in here : \A j \in here : i <= j

Keep(list, i, x) == IF x.missing = {} THEN Without(list, i)
                    ELSE [list EXCEPT ![i] = x]

(* s after snoop i of a list was offered flit f: unchanged if there is no  *)
(* such snoop or it does not wait for f.                                   *)
OfferFwd(s, i, f) ==
  LET x == s.fwd[i]
      parts == IF "Resp" \in x.missing /\ f.op \in SnoopData \cup SnoopRsps
                 THEN {"Resp"} \cup (IF f.op \in {"SnpRespDataFwded",
                                                  "SnpRespFwded"} THEN {}
                                     ELSE {"CompData"})
               ELSE IF f.op = "CompData" THEN {"CompData"} ELSE {}
  IN IF i = 0 THEN s
     ELSE [s EXCEPT !.fwd = Keep(@, i, [x EXCEPT !.missing = @ \ parts])]

OfferStash(s, i, f) ==
  LET x == s.stash[i]
      answers == "Resp" \in x.missing /\ f.op \in {"SnpResp", "SnpRespData",
                                                   "SnpRespDataPtl"}
      new == CASE answers /\ f.pull ->
                    [x EXCEPT !.missing = @ \ {"Resp"}, !.exp = TRUE,
                              !.pull = f.dbid]
               [] answers /\ ~f.pull -> [x EXCEPT !.missing = {}]
               [] ~answers /\ f.op = "CompAck" ->
                    [x EXCEPT !.missing = @ \ {"Ack"}]
               [] OTHER -> x
  IN IF i = 0 THEN s ELSE [s EXCEPT !.stash = Keep(@, i, new)]

OfferSnp(s, i, f) ==
  IF i = 0 \/ f.op \notin {"SnpResp", "SnpRespData", "SnpRespDataPtl"} THEN s
  ELSE [s EXCEPT !.snp = Without(@, i)]

(* The mutant asks the lists in another order: a snoop that does not       *)
(* forward is taken for one that does.                                     *)
MutantAnswered(s, f) ==
  LET snp == OfferSnp(s, FirstWith(s.snp, f.id), f)
  IN IF snp # s THEN snp ELSE OfferFwd(s, FirstWith(s.fwd, f.id), f)

(* A response to a snoop is offered to each of the lists.                  *)
Answered(s, f) ==
  LET fwd == OfferFwd(s, FirstWith(s.fwd, f.id), f)
      stash == OfferStash(s, FirstWith(s.stash, f.id), f)
  IN IF fwd # s THEN fwd ELSE IF stash # s THEN stash
     ELSE OfferSnp(s, FirstWith(s.snp, f.id), f)

HandleTxDat(s, f) ==
  LET i == TxnWith(s.txn, f.tgt, f.id)
      t == IF i = -1 THEN Nothing ELSE s.txn[i]
      parts == IF t = Nothing THEN {} ELSE TxDat(t, f.op)
      forwards == {k \in 1 .. Len(s.fwd) :
                     /\ "Resp" \notin s.fwd[k].missing
                     /\ s.fwd[k].fwdNID = f.tgt /\ s.fwd[k].fwdTxn = f.id}
      new == IF f.op \in SnoopData THEN Answered(s, f)
             ELSE OfferFwd(s, First(forwards), f)
  IN IF f.op = "DataLCrdReturn" THEN s
     ELSE IF f.op \notin SnoopData /\ Takes(t, parts)
       THEN [s EXCEPT !.txn[i] = After(t, parts, f, FALSE)]
     ELSE IF new # s THEN new ELSE [s EXCEPT !.errors = @ \cup {"tx dat"}]

HandleTxRsp(s, f) ==
  LET i == TxnWith(s.txn, f.tgt, f.id)
      t == IF i = -1 THEN Nothing ELSE s.txn[i]
      parts == IF t = Nothing THEN {} ELSE TxRsp(t, f.op)
      pulled == {k \in 1 .. Len(s.stash) :
                   s.stash[k].home = f.tgt /\ s.stash[k].dbid = f.id}
      new == IF f.op \in SnoopRsps THEN Answered(s, f)
             ELSE OfferStash(s, First(pulled), f)
  IN IF f.op = "RespLCrdReturn" THEN s
     ELSE IF f.op \notin SnoopRsps /\ Takes(t, parts)
       THEN [s EXCEPT !.txn[i] = After(t, parts, f, FALSE)]
     ELSE IF new # s THEN new ELSE [s EXCEPT !.errors = @ \cup {"tx rsp"}]

HandleRxDat(s, f) ==
  LET t == s.txn[f.id]
      parts == IF t = Nothing THEN {} ELSE RxDat(t, f.op)
      i == First({k \in 1 .. Len(s.stash) :
                    s.stash[k].exp /\ s.stash[k].pull = f.id})
      pulled == /\ t = Nothing /\ i > 0 /\ f.op = "CompData"
                /\ "CompData" \in s.stash[i].missing
  IN IF f.op = "DataLCrdReturn" THEN s
     ELSE IF Takes(t, parts)
       THEN [s EXCEPT !.txn[f.id] = After(t, parts, f, TRUE)]
     ELSE IF pulled
       THEN [s EXCEPT !.stash[i].missing = @ \ {"CompData"},
                      !.stash[i].home = f.home, !.stash[i].dbid = f.dbid]
     ELSE [s EXCEPT !.errors = @ \cup {"rx dat"}]

HandleRxRsp(s, f) ==
  LET t == s.txn[f.id]
      parts == IF t = Nothing THEN {} ELSE RxRsp(t, f.op)
  IN IF f.op \in {"RespLCrdReturn", "PCrdGrant"} THEN s
     ELSE IF t # Nothing /\ f.op = "RetryAck"
       THEN [s EXCEPT !.txn[f.id] = Nothing]
     ELSE IF Takes(t, parts)
       THEN [s EXCEPT !.txn[f.id] = After(t, parts, f, TRUE)]
     ELSE [s EXCEPT !.errors = @ \cup {"rx rsp"}]

SampleSnpReq(s, f) ==
  LET x == [id |-> f.id, missing |-> {"Resp"}, fwdNID |-> f.fwdNID,
            fwdTxn |-> f.fwdTxn, exp |-> FALSE, pull |-> 0, home |-> -1,
            dbid |-> 0]
  IN CASE f.op = "SnpLCrdReturn" -> s
       [] f.op \in SnpFwds ->
            [s EXCEPT !.fwd = Append(@, [x EXCEPT !.missing = @ \cup {"CompData"}])]
       [] f.op \in SnpStashes ->
            [s EXCEPT !.stash = Append(@, [x EXCEPT !.missing =
                                             @ \cup {"CompData", "Ack"}])]
       [] f.op = "SnpDVMOp" /\ FirstWith(s.snp, f.id) > 0 -> s
       [] OTHER -> [s EXCEPT !.snp = Append(@, x)]

SampleRequest(s, f) ==
  LET new == Begin(f)
      known == f.op \notin {"PrefetchTgt", "PCrdReturn", "ReqLCrdReturn"}
  IN [s EXCEPT !.txn[f.id] = IF new = Nothing THEN @ ELSE new,
               !.errors = @ \cup When(known /\ s.txn[f.id] # Nothing, "txn id")]

(* check_txn_flows: what arrives at one edge, in the order of the code.    *)
check_txn_flows ==
  LET on(c) == valid[c]
      s0 == [txn |-> m_txn, fwd |-> m_snpFwdList, stash |-> m_snpStashList,
             snp |-> m_snpList, errors |-> {}]
      s1 == IF on("txreq") THEN SampleRequest(s0, Item("txreq")) ELSE s0
      s2 == IF on("txdat") THEN HandleTxDat(s1, Item("txdat")) ELSE s1
      s3 == IF on("txrsp") THEN HandleTxRsp(s2, Item("txrsp")) ELSE s2
      s4 == IF on("rxdat") THEN HandleRxDat(s3, Item("rxdat")) ELSE s3
      s5 == IF on("rxrsp") THEN HandleRxRsp(s4, Item("rxrsp")) ELSE s4
  IN IF on("rxsnp") THEN SampleSnpReq(s5, Item("rxsnp")) ELSE s5
-----------------------------------------------------------------------------
(* checker_request_retry.                                                  *)

(* PCredits::Compare.                                                      *)
Same(r, q) ==
  /\ Address(r) = Address(q)
  /\ \A f \in {"src", "ret", "stash", "op", "size", "ns", "likely", "order",
               "mem", "snp", "lpid", "excl", "ack"} : r[f] = q[f]

Retried(p, req) == \E i \in 1 .. Len(p.reqs) : Same(p.reqs[i], req)

(* The mutant lets one retried request go with each credit.                *)
MutantDecNumPCredits(p) ==
  [num |-> (p.num - 1) % Unsigned,
   reqs |-> IF p.reqs = <<>> THEN <<>> ELSE Tail(p.reqs)]

DecNumPCredits(p) ==
  [num |-> (p.num - 1) % Unsigned, reqs |-> IF p.num = 1 THEN <<>> ELSE p.reqs]

CompleterOf(list, node) ==
  First({k \in 1 .. Len(list) : list[k].node = node})

CompleterFor(list, req) ==
  First({k \in 1 .. Len(list) :
           \/ req.op = "PCrdReturn" /\ list[k].node = req.tgt
           \/ \E y \in Types : Retried(list[k].credits[y], req)})

(* The list with a completer for the source of a response.                 *)
WithCompleter(list, rsp) ==
  IF CompleterOf(list, rsp.src) > 0 THEN list
  ELSE Append(list, [node |-> rsp.src,
                     credits |-> [y \in Types |-> [num |-> 0, reqs |-> <<>>]]])

(* A request that may not be retried has to use or return a credit.        *)
RetrySample(s, req) ==
  LET i == CompleterFor(s.comps, req)
      p == s.comps[i].credits[req.pcrd]
      uses == i > 0 /\ (\/ req.op = "PCrdReturn" /\ p.num > 0
                        \/ Retried(p, req))
  IN IF req.op = "ReqLCrdReturn" THEN s
     ELSE IF req.retry THEN [s EXCEPT !.reqs[req.id] = req]
     ELSE IF uses
       THEN [s EXCEPT !.comps[i].credits[req.pcrd] = DecNumPCredits(@)]
     ELSE [s EXCEPT !.errors = @ \cup {"retry"}]

(* CheckCompleters, when no request is outstanding.                        *)
Settled(s) ==
  [s EXCEPT !.errors = @ \cup
     When(/\ s.reqs = NoTxns
          /\ \E i \in 1 .. Len(s.comps), y \in Types :
               s.comps[i].credits[y].num > Len(s.comps[i].credits[y].reqs),
          "PCredits")]

(* The mutant still waits for a retry of a request that was answered.      *)
MutantRetryRxRsp(s, f) ==
  LET comps == WithCompleter(s.comps, f)   i == CompleterOf(comps, f.src)
  IN CASE f.op = "RetryAck" /\ s.reqs[f.id] # Nothing ->
            Settled([s EXCEPT !.reqs[f.id] = Nothing, !.comps =
                       [comps EXCEPT ![i].credits[f.pcrd].reqs =
                                        Append(@, s.reqs[f.id])]])
       [] f.op = "PCrdGrant" ->
            Settled([s EXCEPT !.comps =
                       [comps EXCEPT ![i].credits[f.pcrd].num = @ + 1]])
       [] OTHER -> s

RetryRxRsp(s, f) ==
  LET comps == WithCompleter(s.comps, f)   i == CompleterOf(comps, f.src)
      req == s.reqs[f.id]
      new == CASE f.op = "RetryAck" /\ req = Nothing ->
                    [s EXCEPT !.errors = @ \cup {"RetryAck"}]
               [] f.op = "RetryAck" /\ req # Nothing ->
                    [s EXCEPT !.reqs[f.id] = Nothing, !.comps =
                       [comps EXCEPT ![i].credits[f.pcrd].reqs = Append(@, req)]]
               [] f.op = "PCrdGrant" ->
                    [s EXCEPT !.comps =
                       [comps EXCEPT ![i].credits[f.pcrd].num =
                                        (@ + 1) % Unsigned]]
               [] OTHER -> [s EXCEPT !.reqs[f.id] = Nothing]
  IN IF f.op = "RetryAck" /\ req = Nothing THEN new ELSE Settled(new)

check_request_retry ==
  LET s0 == [reqs |-> m_reqs, comps |-> m_completers, errors |-> {}]
      s1 == IF valid["txreq"] THEN RetrySample(s0, Item("txreq")) ELSE s0
      s2 == IF valid["rxdat"]
              THEN Settled([s1 EXCEPT !.reqs[Item("rxdat").id] = Nothing])
              ELSE s1
  IN IF valid["rxrsp"] THEN RetryRxRsp(s2, Item("rxrsp")) ELSE s2
-----------------------------------------------------------------------------
(* checker_ch_lcredits.                                                    *)

(* The mutant counts a credit before the flit that uses it.                *)
MutantCounted(c) == m_credits[c] + (IF valid[CreditOf[c]] THEN 1 ELSE 0)

Counted(c) ==
  m_credits[c] - (IF valid[c] THEN 1 ELSE 0)
               + (IF valid[CreditOf[c]] THEN 1 ELSE 0)

check_ch_lcredits ==
  When(\E c \in Flits : Counted(c) \notin 0 .. MAX_CREDITS, "credits")
-----------------------------------------------------------------------------
(* Steps.                                                                  *)

posedge ==
  /\ Edge({})
  /\ m_txn' = check_txn_flows.txn /\ m_snpFwdList' = check_txn_flows.fwd
  /\ m_snpStashList' = check_txn_flows.stash
  /\ m_snpList' = check_txn_flows.snp
  /\ m_reqs' = check_request_retry.reqs
  /\ m_completers' = check_request_retry.comps
  /\ m_credits' = [c \in Flits |-> Counted(c)]
  /\ UNCHANGED counts
  /\ errors' = errors
       \cup Report("requests",
              IF valid["txreq"] THEN CheckRequest(Item("txreq")) ELSE {})
       \cup Report("data",
              When(valid["txdat"] /\ Item("txdat").op \notin Datas, "dat opcode"))
       \cup Report("snoops",
              IF valid["rxsnp"] THEN CheckSnoopRequests(Item("rxsnp")) ELSE {})
       \cup Report("responses",
              When(valid["rxrsp"] /\ Item("rxrsp").op \notin Rsps, "rsp opcode"))
       \cup Report("txns", check_txn_flows.errors)
       \cup Report("retry", check_request_retry.errors)
       \cup Report("credits", check_ch_lcredits)

reset_falls ==
  /\ Falls
  /\ m_txn' = NoTxns /\ m_snpFwdList' = <<>> /\ m_snpStashList' = <<>>
  /\ m_snpList' = <<>> /\ m_reqs' = NoTxns /\ m_completers' = <<>>
  /\ m_credits' = NoCredits

reset_released == Released /\ UNCHANGED lists

Next == posedge \/ reset_falls \/ reset_released

Spec == Init /\ [][Next]_vars
-----------------------------------------------------------------------------
(* Properties.                                                             *)

(* The checker of the transactions and that of the retries follow legal    *)
(* traffic alike: a request that may still be told to retry is under way,  *)
(* and at the end nothing is under way for either.                         *)
ChiCheckersAgree ==
  scenario.wrong = {} =>
    /\ \A i \in TxnIDs : m_reqs[i] # Nothing => m_txn[i] # Nothing
    /\ Over /\ resetn =>
         /\ m_txn = NoTxns /\ m_reqs = NoTxns
         /\ m_snpFwdList = <<>> /\ m_snpStashList = <<>> /\ m_snpList = <<>>
=============================================================================
