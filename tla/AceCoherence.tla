---------------------------- MODULE AceCoherence ----------------------------
(***************************************************************************)
(* Caches kept coherent by the ACE interconnect: cache-ace.h (the cache of *)
(* a master, write-back or write-through) and iconnect-ace.h (its ports,   *)
(* the ordering of overlapping transactions, the snoop engine, the         *)
(* exclusive monitors and the downstream port).                            *)
(*                                                                         *)
(* SystemC runs one process at a time until it waits. `running' is the     *)
(* master whose thread runs inside its cache; nothing else moves then. A   *)
(* master has one request at a time (m_mutex), a request goes line by      *)
(* line, and each line may take several transactions.                      *)
(*                                                                         *)
(* A transaction is "queued" behind one it overlaps, in the fifo of the    *)
(* snoop "engine", being answered by the "snooped" masters, in the fifo    *)
(* that goes "down" to the memory, or "done" and not yet returned.         *)
(*                                                                         *)
(* Abstracted: get_toggle alternates and is a free choice here; the reply  *)
(* to a snoop is taken into its transaction in the same step, which        *)
(* touches nothing else; an Evict is answered at once by the port, so it   *)
(* only drops the line. Left out: byte enables, secure and non-shareable   *)
(* accesses, errors, barriers (answered at once), DVM (AceDvm).            *)
(***************************************************************************)
EXTENDS Integers, Sequences, FiniteSets, SequencesExt

CONSTANTS
  Masters,    (* The ACE masters, each with a cache.                       *)
  Lite,       (* The ACE-Lite masters, without one.                        *)
  Lines,      (* The cache lines of the memory, in the order of addresses. *)
  Words,      (* The words of a line, from 0.                              *)
  Values,
  Scenarios,  (* What the systems are, and the bound on their requests.    *)
  None        (* No master.                                                *)

VARIABLES
  scenario,   (* The write policies, where a cache keeps each line, what   *)
              (* each port may be asked for and how many requests there    *)
              (* are                                                       *)
  slot,       (* m_cacheline of each master                                *)
  m_monitor,  (* The addresses of its exclusive sequences                  *)
  req,        (* The request each port is working on                       *)
  tr,         (* Its transaction in the interconnect                       *)
  running,    (* The master whose thread runs                              *)
  asked,      (* The number of requests so far                             *)
  m_overlapping_tx, m_snoop_engine_fifo, m_downstream_fifo,
  m_port_set, m_lock, release,     (* PosMonitor                           *)
  mem,        (* The memory below the downstream port                      *)
  last,       (* History: the last store to each word                      *)
  broken,     (* History: lines of which the code lost track               *)
  crowded,    (* History: lines with two transactions at once              *)
  reserved,   (* History: words loaded exclusively, not stored to since    *)
  evaded,     (* History: words whose monitor misses the snoops            *)
  torn        (* History: how an exclusive store went through wrongly      *)

caches == <<slot, m_monitor>>
fifos == <<m_overlapping_tx, m_snoop_engine_fifo, m_downstream_fifo>>
exmon == <<m_port_set, m_lock, release>>
history == <<last, broken, crowded, reserved, evaded, torn>>
vars == <<scenario, caches, req, tr, running, asked, fifos, exmon, mem, history>>

-----------------------------------------------------------------------------
Ports == Masters \cup Lite
Cells == Lines \X Words
CellsOf(l) == {l} \X Words
LinesOf(cells) == {c[1] : c \in cells}
First(cells) ==
  CHOOSE c \in cells : \A d \in cells :
    c[1] < d[1] \/ (c[1] = d[1] /\ c[2] <= d[2])
NoReq == [kind |-> "none", cells |-> {}, left |-> {}, excl |-> FALSE]
Request(kind, cells, excl) ==
  [kind |-> kind, cells |-> cells, left |-> cells, excl |-> excl]
Maintenance == {"CleanShared", "CleanInvalid", "MakeInvalid"}

NoTr == [stage |-> "none", op |-> "none", cells |-> {}]
Tr(op, cells, data, excl) ==
  [stage |-> "new", op |-> op, cells |-> cells, data |-> data,
   excl |-> excl, exok |-> FALSE, ok |-> FALSE, shared |-> FALSE,
   dirty |-> FALSE, pending |-> <<>>, ds |-> {}, dsdata |-> <<>>]

(* What the snooped masters see of an operation of another.                *)
SnoopOf(op) ==
  CASE op \in {"CleanUnique", "WriteUnique"} -> "CleanInvalid"
    [] op \in {"MakeUnique", "WriteLineUnique"} -> "MakeInvalid"
    [] OTHER -> op

(* The mutant forgets one of the reads that carry data.                    *)
MutantIsReadSnoopForgets(op) ==
  op \in {"ReadClean", "ReadNotSharedDirty", "ReadShared", "ReadUnique"}

IsReadSnoop(op) == op \in {"ReadOnce", "ReadClean", "ReadNotSharedDirty",
                           "ReadShared", "ReadUnique"}
AllowPassDirty(op) ==
  op \in {"ReadShared", "ReadNotSharedDirty", "ReadUnique"}
(* The mutant orders the write-backs like the others.                      *)
MutantIsSnoopingAll(op) == TRUE

IsSnooping(op) == op \notin {"WriteBack", "WriteClean"}
WriteOngoing(m) == tr[m].op \in {"WriteBack", "WriteClean"}

Init ==
  /\ scenario \in Scenarios
  /\ slot = [m \in Masters |->
       [i \in {scenario.index[l] : l \in Lines} |->
         [valid |-> FALSE, tag |-> First(Cells)[1], shared |-> FALSE,
          dirty |-> FALSE, data |-> [w \in Words |-> 0]]]]
  /\ m_monitor = [m \in Masters |-> {}]
  /\ req = [p \in Ports |-> NoReq]
  /\ tr = [p \in Ports |-> NoTr]
  /\ running = None /\ asked = 0
  /\ m_overlapping_tx = <<>> /\ m_snoop_engine_fifo = <<>>
  /\ m_downstream_fifo = <<>>
  /\ m_port_set = {} /\ m_lock = FALSE /\ release = FALSE
  /\ mem = [c \in Cells |-> 0]
  /\ last = mem /\ broken = {} /\ crowded = {} /\ torn = "no"
  /\ reserved = [m \in Masters |-> {}]
  /\ evaded = [m \in Masters |-> {c \in Cells : c[2] # 0}]

-----------------------------------------------------------------------------
(* OverlappingTxOrderer. A snooping transaction waits while an ongoing one *)
(* overlaps it; the others go straight down. Whatever waited on the one    *)
(* that is done starts in the order it came, unless it still overlaps.     *)

Ongoing == {p \in Ports : tr[p].stage \notin {"none", "queued"}}
Overlap(s, t) == s.cells \cap t.cells # {}

Process(p, t) ==
  LET stage == IF ~IsSnooping(t.op) THEN "down"
               ELSE IF \E q \in Ongoing \ {p} : Overlap(tr[q], t) THEN "queued"
               ELSE "engine"
      Add(fifo, s) == IF stage = s THEN Append(fifo, p) ELSE fifo
  IN /\ tr' = [tr EXCEPT ![p] = [t EXCEPT !.stage = stage]]
     /\ m_overlapping_tx' = Add(m_overlapping_tx, "queued")
     /\ m_snoop_engine_fifo' = Add(m_snoop_engine_fifo, "engine")
     /\ m_downstream_fifo' = IF stage = "down"
          THEN Append(m_downstream_fifo, [port |-> p, line |-> 0])
          ELSE m_downstream_fifo

Restarted(p) ==
  LET Restart(started, q) ==
        IF Overlap(tr[q], tr[p])
             /\ \A o \in (Ongoing \ {p}) \cup ToSet(started) :
                  ~Overlap(tr[o], tr[q])
          THEN Append(started, q) ELSE started
  IN FoldLeft(Restart, <<>>, m_overlapping_tx)

(* The mutant leaves those it starts in the list.                          *)
MutantRestartKeepsList(p) ==
  LET started == Restarted(p)
  IN /\ tr' = [q \in Ports |->
          IF q = p THEN NoTr
          ELSE IF q \in ToSet(started) THEN [tr[q] EXCEPT !.stage = "engine"]
          ELSE tr[q]]
     /\ m_snoop_engine_fifo' = m_snoop_engine_fifo \o started
     /\ UNCHANGED <<m_overlapping_tx, m_downstream_fifo>>

restart_overlapping(p) ==
  LET started == Restarted(p)
  IN /\ tr' = [q \in Ports |->
          IF q = p THEN NoTr
          ELSE IF q \in ToSet(started) THEN [tr[q] EXCEPT !.stage = "engine"]
          ELSE tr[q]]
     /\ m_overlapping_tx' =
          SelectSeq(m_overlapping_tx, LAMBDA q : q \notin ToSet(started))
     /\ m_snoop_engine_fifo' = m_snoop_engine_fifo \o started
     /\ UNCHANGED m_downstream_fifo

-----------------------------------------------------------------------------
(* SnoopEngine. The exclusive monitor has one bit for each master and      *)
(* knows no addresses: a CleanUnique of an exclusive store whose bit is    *)
(* not set ends here, without a snoop and with an OK response.             *)

Fails(p, t) == t.excl /\ t.op = "CleanUnique" /\ p \notin m_port_set

handle_exclusive(p, t) ==
  IF t.excl /\ t.op \in {"CleanUnique", "ReadShared", "ReadClean"}
    THEN LET set == IF m_lock THEN m_port_set ELSE m_port_set \cup {p}
             won == t.op = "CleanUnique" /\ p \in m_port_set
         IN /\ m_port_set' = IF won THEN {p} ELSE set
            /\ m_lock' = (m_lock \/ won)
            /\ UNCHANGED release
    ELSE UNCHANGED exmon

(* Lines on which another transaction is being processed already: two that *)
(* do not overlap may be parts of one line.                                *)
Crowd(p, t) ==
  {l \in LinesOf(t.cells) : \E q \in Ongoing \ {p} :
     /\ tr[q].stage # "engine"
     /\ l \in LinesOf(tr[q].cells) /\ ~Overlap(tr[q], t)}

(* The release event of the lock: its thread runs after the transaction.   *)
release_lock_thread ==
  /\ running = None /\ release
  /\ release' = FALSE /\ m_lock' = FALSE
  /\ UNCHANGED <<scenario, asked, caches, req, tr, running, fifos, m_port_set, mem,
                 history>>

snoop_engine_thread ==
  /\ running = None /\ m_snoop_engine_fifo # <<>>
  /\ LET p == Head(m_snoop_engine_fifo)
         t == tr[p]
     IN /\ handle_exclusive(p, t)
        /\ crowded' = crowded \cup Crowd(p, t)
        /\ tr' = [tr EXCEPT ![p] =
             IF Fails(p, t) THEN [t EXCEPT !.stage = "done", !.ok = TRUE]
             ELSE [t EXCEPT !.stage = "snooped",
                     !.exok = t.excl,
                     !.pending = [l \in LinesOf(t.cells) |-> Masters \ {p}],
                     !.ds = IF t.op = "ReadOnce" THEN LinesOf(t.cells)
                            ELSE {},
                     !.dsdata = [l \in LinesOf(t.cells) |->
                                   [w \in Words |-> 0]]]]
  /\ m_snoop_engine_fifo' = Tail(m_snoop_engine_fifo)
  /\ UNCHANGED <<scenario, asked, caches, req, running, m_overlapping_tx,
                 m_downstream_fifo, mem, last, broken, reserved, evaded, torn>>

in_cache(m, l) == slot[m][scenario.index[l]].valid /\ slot[m][scenario.index[l]].tag = l

(* The handlers of the snoops: what the line becomes and what is replied.  *)
(* handle_readnotshareddirty is handle_readclean.                          *)
Invalidates(snoop) == snoop \in {"ReadUnique", "CleanInvalid", "MakeInvalid"}

(* The mutant leaves the line unique after a read that leaves it dirty.    *)
MutantSnoopedStaysUnique(line, snoop) ==
  [line EXCEPT !.valid = ~Invalidates(snoop),
               !.shared = line.shared \/ snoop = "ReadShared",
               !.dirty = line.dirty /\ snoop \notin {"ReadShared", "CleanShared"}]

Snooped(line, snoop) ==
  [line EXCEPT !.valid = ~Invalidates(snoop),
               !.shared = TRUE,
               !.dirty = line.dirty /\ snoop \notin {"ReadShared", "CleanShared"}]

(* The mutant drops the dirty data of a line that is cleaned and           *)
(* invalidated.                                                            *)
MutantPassesDirtyReads(line, snoop) ==
  line.dirty /\ snoop \in {"ReadShared", "ReadUnique", "CleanShared"}

PassesDirty(line, snoop) ==
  line.dirty /\ snoop \in {"ReadShared", "ReadUnique", "CleanInvalid",
                           "CleanShared"}
PassesData(line, snoop) == IsReadSnoop(snoop) \/ PassesDirty(line, snoop)

(* The exclusive sequences of a master after a snoop: the addresses are    *)
(* recorded as they come, and reset by the start of the line. The mutant   *)
(* does so for some of the snoops that invalidate.                         *)
MutantWatchedReadUnique(monitor, l, snoop) ==
  IF snoop = "ReadUnique" THEN monitor \ {<<l, 0>>} ELSE monitor

Watched(monitor, l, snoop) ==
  IF Invalidates(snoop) THEN monitor \ {<<l, 0>>} ELSE monitor

(* Whether the reply of a master settles the response of the transaction,  *)
(* which then needs not go downstream.                                     *)
Settles(t, transfer) ==
  LET snoop == SnoopOf(t.op)
  IN \/ IsReadSnoop(snoop) /\ snoop # "ReadOnce" /\ transfer
     \/ snoop \in Maintenance /\ t.op \notin {"WriteUnique", "WriteLineUnique"}

(* SnoopTransaction::PortDone with the reply of a line that was found.     *)
PortDone(t, l, line) ==
  LET snoop == SnoopOf(t.op)
      transfer == PassesData(line, snoop)
      dirty == PassesDirty(line, snoop)
  IN [t EXCEPT
        !.shared = t.shared \/ ~Invalidates(snoop),
        !.data = IF IsReadSnoop(snoop)
          THEN [c \in t.cells |-> IF c[1] = l THEN line.data[c[2]] ELSE @[c]]
          ELSE @,
        !.dirty = t.dirty \/ (dirty /\ AllowPassDirty(t.op)),
        !.ds = IF t.op = "ReadOnce" THEN @ \ {l}
               ELSE IF dirty /\ ~AllowPassDirty(t.op) THEN @ \cup {l} ELSE @,
        !.dsdata[l] = IF dirty THEN line.data ELSE @,
        !.ok = t.ok \/ Settles(t, transfer)]

(* b_transport_snoop of master m for line l of the transaction of p. A     *)
(* master whose WriteBack or WriteClean is under way lets the snoop wait.  *)
b_transport_snoop(p, l, m) ==
  LET t == tr[p]
      snoop == SnoopOf(t.op)
      i == scenario.index[l]
      queried == [t EXCEPT !.pending[l] = @ \ {m}]
  IN /\ running = None /\ t.stage = "snooped"
     /\ m \in t.pending[l] /\ ~WriteOngoing(m)
     /\ IF in_cache(m, l)
          THEN /\ slot' = [slot EXCEPT ![m][i] = Snooped(@, snoop)]
               /\ tr' = [tr EXCEPT ![p] = PortDone(queried, l, slot[m][i])]
               /\ m_monitor' =
                    [m_monitor EXCEPT ![m] = Watched(@, l, snoop)]
          ELSE /\ tr' = [tr EXCEPT ![p] =
                    [queried EXCEPT !.ok = @ \/ Settles(t, FALSE)]]
               /\ UNCHANGED caches
     /\ UNCHANGED <<scenario, asked, req, running, fifos, exmon, mem, history>>

(* snoop_done_thread and finalize_snoop_tr: a line all masters answered.   *)
(* Dirty data nobody takes, or the line of a ReadOnce nobody had, goes     *)
(* downstream first. A ReadOnce and a WriteUnique end when all their lines *)
(* do, everything else with the first line that does.                      *)
snoop_done_thread(p, l) ==
  LET t == tr[p]
      entry == [port |-> p, line |-> l]
      rest == DOMAIN t.pending \ {l}
      waits == t.op \in {"ReadOnce", "WriteUnique"} /\ rest # {}
      ended == t.ok \/ t.op = "ReadOnce"
  IN /\ running = None /\ t.stage = "snooped"
     /\ l \in DOMAIN t.pending /\ t.pending[l] = {}
     /\ entry \notin ToSet(m_downstream_fifo)
     /\ IF l \in t.ds
          THEN /\ m_downstream_fifo' = Append(m_downstream_fifo, entry)
               /\ UNCHANGED tr
          ELSE /\ tr' = [tr EXCEPT ![p] = [t EXCEPT
                    !.pending = [k \in rest |-> t.pending[k]],
                    !.stage = IF waits THEN @
                              ELSE IF ended THEN "done" ELSE "down"]]
               /\ m_downstream_fifo' = IF ~waits /\ ~ended
                    THEN Append(m_downstream_fifo, [port |-> p, line |-> 0])
                    ELSE m_downstream_fifo
     /\ UNCHANGED <<scenario, asked, caches, req, running, m_overlapping_tx,
                    m_snoop_engine_fifo, exmon, mem, history>>

-----------------------------------------------------------------------------
(* The downstream port and the memory below it: a transaction (line 0), or *)
(* a line that its snoop reads or cleans.                                  *)

IsWrite(op) == op \in {"WriteBack", "WriteClean", "WriteUnique",
                       "WriteLineUnique"}

(* A store changes what everybody must read, and ends the exclusive        *)
(* sequences of the others.                                                *)
Stored(p, cells, data) ==
  /\ last' = [c \in Cells |-> IF c \in cells THEN data[c] ELSE last[c]]
  /\ reserved' = [m \in Masters |->
       IF m = p THEN reserved[m] ELSE reserved[m] \ cells]
  /\ UNCHANGED <<broken, crowded, evaded>>

downstream_port_thread ==
  LET entry == Head(m_downstream_fifo)
      p == entry.port
      t == tr[p]
      l == entry.line
      cells == IF l = 0 THEN t.cells ELSE CellsOf(l)
      data == IF l = 0 THEN t.data ELSE [c \in cells |-> t.dsdata[l][c[2]]]
      reads == IF l = 0 THEN ~IsWrite(t.op) ELSE t.op = "ReadOnce"
  IN /\ running = None /\ m_downstream_fifo # <<>>
     /\ m_downstream_fifo' = Tail(m_downstream_fifo)
     /\ tr' = [tr EXCEPT ![p] = [t EXCEPT
          !.stage = IF l = 0 THEN "done" ELSE @,
          !.ds = @ \ {l},
          !.data = IF reads
            THEN [c \in t.cells |-> IF c \in cells THEN mem[c] ELSE @[c]]
            ELSE @]]
     /\ mem' = IF reads THEN mem
               ELSE [c \in Cells |-> IF c \in cells THEN data[c] ELSE mem[c]]
     /\ IF l = 0 /\ t.op \in {"WriteUnique", "WriteLineUnique"}
          THEN Stored(p, cells, data) /\ UNCHANGED torn
          ELSE UNCHANGED history
     /\ UNCHANGED <<scenario, asked, caches, req, running, m_overlapping_tx,
                    m_snoop_engine_fifo, exmon>>

-----------------------------------------------------------------------------
(* The cache. b_transport takes a request; handle_load and handle_store go *)
(* through its words from the first, checking the cache again after every  *)
(* transaction.                                                            *)

Line(m) == First(req[m].left)[1]
Part(m) == req[m].left \cap CellsOf(Line(m))
NextWord(m) == First(req[m].left)
Found(m) == in_cache(m, Line(m))
get_line(m) == slot[m][scenario.index[Line(m)]]

(* Master m is at the next words of a request of one of these kinds.       *)
At(m, kinds) == running = m /\ req[m].left # {} /\ req[m].kind \in kinds

Issue(m, op, cells, data) ==
  /\ Process(m, Tr(op, cells, data, req[m].excl))
  /\ running' = None
  /\ UNCHANGED <<scenario, asked, caches, req, exmon, mem, history>>

b_transport(m) ==
  /\ running = None /\ req[m] = NoReq /\ asked < scenario.bound
  /\ \E r \in scenario.requests[m] :
       req' = [req EXCEPT ![m] = r]
  /\ running' = m /\ asked' = asked + 1
  /\ UNCHANGED <<scenario, caches, tr, fifos, exmon, mem, history>>

Return(m) ==
  /\ running = m /\ req[m].left = {}
  /\ req' = [req EXCEPT ![m] = NoReq]
  /\ running' = None
  /\ IF req[m].excl /\ req[m].kind = "load"
       THEN reserved' = [reserved EXCEPT ![m] = @ \cup req[m].cells]
       ELSE UNCHANGED reserved
  /\ UNCHANGED <<scenario, asked, caches, tr, fifos, exmon, mem, last, broken, crowded,
                 evaded, torn>>

LoadHit(m) ==
  /\ At(m, {"load"}) /\ Found(m)
  /\ req' = [req EXCEPT ![m].left = @ \ Part(m)]
  /\ UNCHANGED <<scenario, asked, caches, tr, running, fifos, exmon, mem, history>>

(* evict_line: a dirty line is written back, or cleaned and then dropped.  *)
Misses(m) == At(m, {"load", "store"}) /\ ~Found(m)
               /\ ~(req[m].kind = "store" /\ scenario.policy[m] = "wt")
               /\ ~(req[m].kind = "store" /\ req[m].excl
                      /\ NextWord(m) \notin m_monitor[m])

LineData(line) == [c \in CellsOf(line.tag) |-> line.data[c[2]]]

EvictDirty(m) ==
  /\ Misses(m) /\ get_line(m).valid /\ get_line(m).dirty
  /\ \E op \in {"WriteBack", "WriteClean"} :
       Issue(m, op, CellsOf(get_line(m).tag), LineData(get_line(m)))

EvictClean(m) ==
  /\ Misses(m) /\ get_line(m).valid /\ ~get_line(m).dirty
  /\ slot' = [slot EXCEPT ![m][scenario.index[Line(m)]].valid = FALSE]
  /\ evaded' = [evaded EXCEPT ![m] = @ \cup CellsOf(get_line(m).tag)]
  /\ UNCHANGED <<scenario, asked, m_monitor, req, tr, running, fifos, exmon, mem, last,
                 broken, crowded, reserved, torn>>

(* The operation that brings in a line: a store of a whole line needs none *)
(* of the old data. The mutant takes any store for such a one.             *)
MutantFillOpsPartial(m) ==
  IF req[m].kind = "store" THEN {"MakeUnique"}
  ELSE IF scenario.policy[m] = "wt" THEN {"ReadClean"}
  ELSE IF req[m].excl THEN {"ReadShared"}
  ELSE {"ReadShared", "ReadNotSharedDirty"}

FillOps(m) ==
  IF req[m].kind = "store"
    THEN IF Part(m) = CellsOf(Line(m)) THEN {"MakeUnique"} ELSE {"ReadUnique"}
  ELSE IF scenario.policy[m] = "wt" THEN {"ReadClean"}
  ELSE IF req[m].excl THEN {"ReadShared"}
  ELSE {"ReadShared", "ReadNotSharedDirty"}

Fill(m) ==
  /\ Misses(m) /\ ~get_line(m).valid
  /\ \E op \in FillOps(m) :
       Issue(m, op, CellsOf(Line(m)), [c \in CellsOf(Line(m)) |-> 0])

(* A write-back store: an exclusive one needs its monitor; a line that is  *)
(* not unique is made so first; then the line is written.                  *)
Allowed(m) == req[m].excl => NextWord(m) \in m_monitor[m]
StoresBack(m) == At(m, {"store"}) /\ scenario.policy[m] = "wb"

GiveUp(m) ==
  /\ req' = [req EXCEPT ![m] = NoReq]
  /\ running' = None

ExclusiveFails(m) ==
  /\ StoresBack(m) /\ ~Allowed(m)
  /\ GiveUp(m)
  /\ UNCHANGED <<scenario, asked, caches, tr, fifos, exmon, mem, history>>

Upgrade(m) ==
  /\ StoresBack(m) /\ Allowed(m) /\ Found(m) /\ get_line(m).shared
  /\ Issue(m, "CleanUnique", CellsOf(Line(m)), LineData(get_line(m)))

Torn(m) ==
  IF ~req[m].excl \/ Part(m) \subseteq reserved[m] THEN torn
  ELSE IF NextWord(m) \in evaded[m] /\ torn # "held" THEN "evaded"
  ELSE "held"

WriteHit(m) ==
  /\ StoresBack(m) /\ Allowed(m) /\ Found(m) /\ ~get_line(m).shared
  /\ \E v \in Values :
       LET data == [c \in Part(m) |-> v]
       IN /\ slot' = [slot EXCEPT ![m][scenario.index[Line(m)]] =
               [@ EXCEPT !.dirty = TRUE,
                         !.data = [w \in Words |->
                            IF <<Line(m), w>> \in Part(m) THEN v ELSE @[w]]]]
          /\ Stored(m, Part(m), data)
  /\ m_monitor' = IF req[m].excl THEN [m_monitor EXCEPT ![m] = @ \ {NextWord(m)}]
                  ELSE m_monitor
  /\ torn' = Torn(m)
  /\ req' = [req EXCEPT ![m].left = @ \ Part(m)]
  /\ UNCHANGED <<scenario, asked, tr, running, fifos, exmon, mem>>

(* A write-through store.                                                  *)
WriteThrough(m) ==
  /\ At(m, {"store"}) /\ scenario.policy[m] = "wt"
  /\ \E v \in Values :
       Issue(m, IF Part(m) = CellsOf(Line(m)) THEN "WriteLineUnique"
                ELSE "WriteUnique", Part(m), [c \in Part(m) |-> v])

(* do_cache_maintenance: the own copy first. CleanInvalid drops it like    *)
(* MakeInvalid, dirty or not.                                              *)
Clean(m) ==
  /\ At(m, {"CleanShared"}) /\ Found(m) /\ get_line(m).dirty
  /\ Issue(m, "WriteClean", CellsOf(Line(m)), LineData(get_line(m)))

Drop(m) ==
  /\ At(m, {"CleanInvalid", "MakeInvalid"}) /\ Found(m)
  /\ slot' = [slot EXCEPT ![m][scenario.index[Line(m)]].valid = FALSE]
  /\ evaded' = [evaded EXCEPT ![m] = @ \cup CellsOf(Line(m))]
  /\ broken' = IF get_line(m).dirty THEN broken \cup {Line(m)} ELSE broken
  /\ UNCHANGED <<scenario, asked, m_monitor, req, tr, running, fifos, exmon, mem, last,
                 crowded, reserved, torn>>

Maintain(m) ==
  /\ At(m, Maintenance)
  /\ ~(Found(m) /\ (get_line(m).dirty \/ req[m].kind # "CleanShared"))
  /\ Issue(m, req[m].kind, req[m].cells, [c \in req[m].cells |-> 0])

-----------------------------------------------------------------------------
(* A transaction returns: whatever waited for it starts, and the cache     *)
(* takes it in, in one go. A CleanUnique whose line was taken away finds   *)
(* it invalid. write_unique looks for its cached copy only while the       *)
(* position in the request is below the length of this part of it.         *)

Filled(line, t) ==
  [line EXCEPT !.valid = TRUE, !.tag = First(t.cells)[1],
               !.shared = t.shared,
               !.dirty = t.dirty \/ t.op = "MakeUnique",
               !.data = IF t.op = "MakeUnique" THEN @
                        ELSE [w \in Words |-> t.data[<<First(t.cells)[1], w>>]]]

SkipsCopy(m, t) ==
  t.op = "WriteUnique"
    /\ Cardinality(req[m].cells \ req[m].left) >= Cardinality(t.cells)

Written(line, t) ==
  [line EXCEPT !.shared = TRUE, !.dirty = FALSE,
               !.data = [w \in Words |->
                  IF <<line.tag, w>> \in t.cells THEN t.data[<<line.tag, w>>]
                  ELSE @[w]]]

(* What the cache's line is after transaction t of its own.                *)
After(m, t, line) ==
  CASE t.op \in {"ReadShared", "ReadNotSharedDirty", "ReadClean", "ReadUnique",
                 "MakeUnique"} -> Filled(line, t)
    [] t.op = "CleanUnique" -> [line EXCEPT !.shared = @ /\ ~line.valid]
    [] t.op = "WriteClean" -> [line EXCEPT !.dirty = FALSE]
    [] t.op = "WriteBack" -> [line EXCEPT !.valid = FALSE]
    [] t.op \in {"WriteUnique", "WriteLineUnique"} ->
         IF in_cache(m, First(t.cells)[1]) /\ ~SkipsCopy(m, t)
           THEN Written(line, t) ELSE line
    [] OTHER -> line

ExclusiveLost(m, t, line) ==
  t.op = "CleanUnique" /\ t.excl /\ ~(line.valid /\ t.exok)

(* The words of the request that are done with this transaction.           *)
DoneBy(t) ==
  IF t.op \in Maintenance \cup {"WriteUnique", "WriteLineUnique"}
    THEN t.cells ELSE {}

Ended(t) == {c \in t.cells : c[1] \in broken \/ t.op = "MakeInvalid"}

Complete(m) ==
  LET t == tr[m]
      i == scenario.index[First(t.cells)[1]]
      line == slot[m][i]
      lost == ExclusiveLost(m, t, line)
      cut == t.op \in {"CleanInvalid", "MakeInvalid"}
  IN /\ running = None /\ t.stage = "done"
     /\ restart_overlapping(m)
     /\ slot' = [slot EXCEPT ![m][i] = After(m, t, line)]
     /\ m_monitor' = [m_monitor EXCEPT ![m] =
          IF lost THEN @ \ {NextWord(m)}
          ELSE IF t.op \in {"ReadShared", "ReadNotSharedDirty"} /\ t.excl
            THEN @ \cup {NextWord(m)}
          ELSE @]
     /\ IF lost THEN GiveUp(m)
        ELSE /\ running' = m
             /\ req' = [req EXCEPT ![m].left = @ \ DoneBy(t)]
     /\ release' = (release \/ (t.op = "CleanUnique" /\ t.excl /\ t.exok))
     /\ last' = IF cut
          THEN [c \in Cells |-> IF c \in Ended(t) THEN mem[c] ELSE last[c]]
          ELSE last
     /\ broken' = IF cut THEN broken \ LinesOf(t.cells)
          ELSE IF \/ in_cache(m, First(t.cells)[1]) /\ SkipsCopy(m, t)
                  \/ lost /\ line.valid
            THEN broken \cup LinesOf(t.cells) ELSE broken
     /\ evaded' = [evaded EXCEPT ![m] =
          IF t.op = "WriteBack" THEN @ \cup t.cells
          ELSE IF t.op \in {"ReadShared", "ReadNotSharedDirty"} /\ t.excl
            THEN @ \ {c \in t.cells : c[2] = 0}
          ELSE @]
     /\ UNCHANGED <<scenario, asked, m_port_set, m_lock, mem, crowded, reserved,
                    torn>>

(* An ACE-Lite master has no cache: its request is its transaction.        *)
LiteRequest(p) ==
  /\ running = None /\ req[p] = NoReq /\ asked < scenario.bound
  /\ asked' = asked + 1
  /\ \E r \in scenario.requests[p], v \in Values :
       /\ IsWrite(r.kind) \/ v = 0
       /\ req' = [req EXCEPT ![p] = r]
       /\ Process(p, Tr(r.kind, r.cells, [c \in r.cells |-> v], FALSE))
  /\ UNCHANGED <<scenario, caches, running, exmon, mem, history>>

LiteComplete(p) ==
  LET t == tr[p]
      cut == t.op \in {"CleanInvalid", "MakeInvalid"}
  IN /\ running = None /\ t.stage = "done"
     /\ restart_overlapping(p)
     /\ req' = [req EXCEPT ![p] = NoReq]
     /\ last' = IF cut
          THEN [c \in Cells |-> IF c \in Ended(t) THEN mem[c] ELSE last[c]]
          ELSE last
     /\ broken' = IF cut THEN broken \ LinesOf(t.cells) ELSE broken
     /\ UNCHANGED <<scenario, asked, caches, running, exmon, mem, crowded, reserved,
                    evaded, torn>>

(* The thread of a master, inside its cache.                               *)
Run(m) ==
  \/ Return(m) \/ LoadHit(m) \/ EvictDirty(m) \/ EvictClean(m) \/ Fill(m)
  \/ ExclusiveFails(m) \/ Upgrade(m) \/ WriteHit(m) \/ WriteThrough(m)
  \/ Clean(m) \/ Drop(m) \/ Maintain(m)

Interconnect ==
  \/ release_lock_thread \/ snoop_engine_thread \/ downstream_port_thread
  \/ \E p \in Ports : tr[p].stage = "snooped" /\ \E l \in DOMAIN tr[p].pending :
       \/ \E m \in Masters : b_transport_snoop(p, l, m)
       \/ snoop_done_thread(p, l)

Next ==
  \/ \E m \in Masters : b_transport(m) \/ Run(m) \/ Complete(m)
  \/ \E p \in Lite : LiteRequest(p) \/ LiteComplete(p)
  \/ Interconnect

Spec == Init /\ [][Next]_vars

-----------------------------------------------------------------------------
(* Lines whose data a MakeInvalid discards, or of which the code lost      *)
(* track: a CleanInvalid drops the own dirty line as if it were clean, a   *)
(* failed exclusive CleanUnique leaves a line marked unique, and a         *)
(* WriteUnique may skip the cached copy.                                   *)
Lost == broken \cup
  UNION {LinesOf(req[p].cells) : p \in {q \in Ports : req[q].kind = "MakeInvalid"}}

Copies(l) == {m \in Masters : in_cache(m, l)}
Copy(m, l) == slot[m][scenario.index[l]]
Pending(p, c, ops) == tr[p].op \in ops /\ c \in tr[p].cells

TypeOK ==
  /\ scenario \in Scenarios
  /\ running \in Masters \cup {None}
  /\ \A m \in Masters, l \in Lines :
       Copy(m, l) \in [valid : BOOLEAN, tag : Lines, shared : BOOLEAN,
                       dirty : BOOLEAN, data : [Words -> Values]]
  /\ \A p \in Ports :
       tr[p].stage \in {"none", "queued", "engine", "snooped", "down", "done"}
  /\ \A p \in Ports : tr[p].stage = "queued" <=> p \in ToSet(m_overlapping_tx)
  /\ mem \in [Cells -> Values]

(* A unique line is in no other cache, and of the copies of a line at most *)
(* one is dirty, whatever evictions, upgrades and snoops cross each other. *)
UniqueAlone ==
  \A l \in Lines \ Lost : \A m, n \in Copies(l) : m # n =>
    /\ Copy(m, l).shared
    /\ ~(Copy(m, l).dirty /\ Copy(n, l).dirty)

(* Every copy of a line holds the last store to it, except in the cache    *)
(* that is writing it through right now.                                   *)
FreshCopies ==
  running = None =>
    \A l \in Lines \ (Lost \cup crowded) : \A m \in Copies(l), c \in CellsOf(l) :
      \/ Copy(m, l).data[c[2]] = last[c]
      \/ Pending(m, c, {"WriteUnique", "WriteLineUnique"})

(* The memory holds the last store unless a dirty copy, or data on its     *)
(* way, does, or the line is about to be written whole.                    *)
Carries(p, c) ==
  /\ tr[p].op \notin {"none", "ReadOnce"}
  /\ (c \in tr[p].cells /\ tr[p].dirty) \/ c[1] \in tr[p].ds
Remembered(c) ==
  \/ mem[c] = last[c]
  \/ \E m \in Copies(c[1]) : Copy(m, c[1]).dirty
  \/ \E p \in Ports :
       Carries(p, c) \/ Pending(p, c, {"MakeUnique", "WriteLineUnique"})
FreshMemory == \A c \in Cells : c[1] \in Lost \cup crowded \/ Remembered(c)

(* The same whether or not a line had two transactions at once, as if each *)
(* line had only one being processed at a time.                            *)
StoresSurvive == \A c \in Cells : c[1] \in Lost \/ Remembered(c)

(* What a ReadOnce brings back is still the last store when it is done.    *)
ReadOnceFresh ==
  \A p \in Ports : tr[p].op = "ReadOnce" /\ tr[p].stage = "done" =>
    \A c \in tr[p].cells :
      c[1] \in Lost \cup crowded \/ tr[p].data[c] = last[c]

(* As long as a transaction is under way, some thread can take a step: no  *)
(* ring of a snoop that waits for a write-back, a transaction that waits   *)
(* for an overlapping one and a busy downstream port.                      *)
CanAnswer(p) ==
  tr[p].stage = "snooped" /\ \E l \in DOMAIN tr[p].pending :
    \/ tr[p].pending[l] = {}
    \/ \E m \in tr[p].pending[l] : ~WriteOngoing(m)
NoRing ==
  running = None /\ (\E p \in Ports : tr[p].stage # "none") =>
    \/ m_snoop_engine_fifo # <<>> \/ m_downstream_fifo # <<>>
    \/ \E p \in Ports : tr[p].stage = "done" \/ CanAnswer(p)

(* An exclusive store that succeeds follows an exclusive load of the same  *)
(* words with no store of another in between, as long as the line stayed   *)
(* in the cache and the words start it.                                    *)
ExclusiveWhileHeld == torn # "held"

(* The same wherever the words are and whether or not the line was evicted *)
(* since.                                                                  *)
ExclusiveIsAtomic == torn = "no"
=============================================================================
