----------------------------- MODULE MCCoherence -----------------------------
(***************************************************************************)
(* The coherent interconnects and their caches, one after the other:       *)
(* `part' says whose steps are taken, and the variables of the others stay *)
(* unused.                                                                 *)
(***************************************************************************)
EXTENDS Integers, Sequences, FiniteSets, TLC

CONSTANTS m1, m2, lite, None

VARIABLES
  part, scenario, slot, m_monitor, req, tr, running, asked,
  m_overlapping_tx, m_snoop_engine_fifo, m_downstream_fifo, m_port_set,
  m_lock, release, mem, last, broken, crowded, reserved, evaded, torn,
  paced, m_list, waiting, pending, replies, execs, sent, got, repeated,
  m_receivedDVM, txn, up, home, toHome, m_toggle, spoiled, since, misread,
  program, first, m_reqList, m_txn, m_ids, m_txList, atomic, slave, rsp,
  dat, flits

-----------------------------------------------------------------------------
(* Two lines of two words, two masters and one without a cache. Each       *)
(* scenario is one mix of write policies, of the index a cache keeps the   *)
(* lines at, and of requests: loads and stores; write-through stores       *)
(* against them; exclusive sequences; cache maintenance; exclusive         *)
(* sequences of words that do not start a line; requests across two lines. *)

Op(k, cells, excl) == [kind |-> k, cells |-> cells, left |-> cells, excl |-> excl]
One(k, l, w) == Op(k, {<<l, w>>}, FALSE)
Excl(k, l, w) == Op(k, {<<l, w>>}, TRUE)
Line(k, l) == Op(k, {l} \X {0, 1}, FALSE)
Across(k) == Op(k, {<<1, 1>>, <<2, 0>>}, FALSE)
Scenario(p2, index, r1, r2, rl, n) ==
  [policy |-> (m1 :> "wb" @@ m2 :> p2), index |-> index,
   requests |-> (m1 :> r1 @@ m2 :> r2 @@ lite :> rl), bound |-> n]

LoadsStores ==
  {One("load", 1, 0), One("load", 2, 0), One("store", 1, 1), Line("store", 1)}
WholeLine == {Line(k, 1) : k \in {"CleanShared", "CleanInvalid", "MakeInvalid"}}
AceScenarios ==
  { Scenario("wb", <<0, 0>>, LoadsStores, LoadsStores, {}, 4),
    Scenario("wt", <<0, 0>>,
      {One("load", 1, 0), One("store", 1, 0)},
      {One("load", 1, 0), One("store", 1, 1), Line("store", 1)},
      {One("ReadOnce", 1, 1), One("WriteUnique", 1, 0),
       Line("WriteLineUnique", 1)}, 4),
    Scenario("wb", <<0, 0>>,
      {Excl("load", 1, 0), Excl("store", 1, 0), One("load", 2, 0)},
      {Excl("load", 1, 0), Excl("store", 1, 0), One("store", 1, 1)}, {}, 5),
    Scenario("wb", <<0, 0>>,
      WholeLine \cup {One("store", 1, 0), One("load", 1, 0)},
      {One("store", 1, 1), One("load", 1, 0)}, WholeLine, 4),
    Scenario("wb", <<0, 1>>,
      {Excl("load", 1, 0), Excl("store", 1, 0), One("load", 2, 0)},
      {One("load", 1, 0), Excl("load", 2, 0), Excl("store", 2, 0)}, {}, 6),
    Scenario("wt", <<0, 0>>, {One("load", 1, 0)},
      {One("load", 1, 0), One("load", 2, 0), Across("store")},
      {Across("WriteUnique"), Across("ReadOnce")}, 4) }

Ace == INSTANCE AceCoherence WITH
  Masters <- {m1, m2}, Lite <- {lite}, Lines <- {1, 2}, Words <- {0, 1},
  Values <- {0, 1}, Scenarios <- AceScenarios

-----------------------------------------------------------------------------
(* Three masters that send four Syncs between them.                        *)

Dvm == INSTANCE AceDvm WITH Masters <- {1, 2, 3}, MaxSyncs <- 4

-----------------------------------------------------------------------------
(* Two lines of two words and three request nodes. Each scenario is one    *)
(* mix of requests: loads and stores with and without forwarding between   *)
(* caches, by two nodes and by three; exclusive sequences; stores without  *)
(* a copy and stores of some bytes of a line; atomic operations and a line *)
(* that is not shareable; operations on virtual memory; byte enables that  *)
(* are not initialised.                                                    *)

Ask(k, l, ws, excl) ==
  [kind |-> k, line |-> l, cells |-> {l} \X ws, excl |-> excl, done |-> FALSE]
Word(k, l, w) == Ask(k, l, {w}, FALSE)
Both(k, l) == Ask(k, l, {0, 1}, FALSE)
Sole(k, l, w) == Ask(k, l, {w}, TRUE)
Chips(index, dct, enabled, reads, away, r1, r2, r3, n) ==
  [index |-> index, dct |-> dct, enabled |-> enabled, reads |-> reads,
   nonshareable |-> away,
   requests |-> (m1 :> r1 @@ m2 :> r2 @@ lite :> r3), bound |-> n]

ChiScenarios ==
  { Chips(<<0, 0>>, dct, {TRUE}, {"ReadShared", "ReadClean"}, {},
      {Word("load", 1, 0), Word("store", 1, 1), Word("load", 2, 0)},
      {Word("load", 1, 0), Word("store", 1, 1), Both("store", 1)}, {},
      IF dct THEN 4 ELSE 3) :
        dct \in BOOLEAN }
  \cup
  { Chips(<<0, 0>>, dct, {TRUE}, {"ReadShared", "ReadNotSharedDirty"}, {},
      {Word("store", 1, 0)}, {Word("load", 1, 0)},
      {Word("load", 1, 0), Word("store", 1, 1)}, 3) : dct \in BOOLEAN }
  \cup
  { Chips(<<0, 0>>, FALSE, {TRUE}, {"ReadShared"}, {},
      {Sole("load", 1, 0), Sole("store", 1, 0), Word("load", 2, 0)},
      {Sole("load", 1, 0), Sole("store", 1, 0), Word("store", 1, 1)}, {}, 5),
    Chips(<<0, 0>>, FALSE, {TRUE}, {"ReadOnce", "ReadOnceMakeInvalid"}, {},
      {Word("load", 1, 0), Word("write", 1, 1), Both("write", 1)},
      {Word("store", 1, 0), Both("sparse", 1), Word("load", 2, 0)}, {}, 3),
    Chips(<<0, 1>>, TRUE, {TRUE}, {"ReadOnce", "ReadOnceCleanInvalid"}, {2},
      {Word("AtomicLoad", 1, 0), Word("AtomicStore", 1, 1), Word("store", 2, 0),
       Word("load", 2, 0)},
      {Word("load", 1, 0), Word("store", 1, 0)}, {}, 3),
    Chips(<<0, 1>>, TRUE, {TRUE}, {"ReadShared"}, {},
      {Ask("DVMOp", 0, {}, FALSE)},
      {Ask("DVMOp", 0, {}, FALSE), Word("store", 1, 0)},
      {Word("load", 1, 0)}, 3),
    Chips(<<0, 0>>, TRUE, BOOLEAN, {"ReadClean"}, {},
      {Word("load", 1, 0), Word("store", 1, 0)},
      {Word("load", 1, 0), Word("store", 1, 0)}, {}, 3) }

Chi == INSTANCE ChiCoherence WITH
  Nodes <- {m1, m2, lite}, Lines <- {1, 2}, Words <- {0, 1},
  Scenarios <- ChiScenarios

-----------------------------------------------------------------------------
(* The slave node of CHI: every pair of an operation and a read, a write   *)
(* or an atomic on the same line, in either order, and triples with        *)
(* another line in between; bytes of four values, lines of four bytes, two *)
(* identifiers.                                                            *)

NodeRequest(op, addr, len, data, be, n) ==
  [op |-> op, sub |-> "-", addr |-> addr, len |-> len, data |-> data, be |-> be,
   flits |-> n, big |-> FALSE, order |-> 0]
LineOf(a, b, c, d) == [o \in 0 .. 3 |-> <<a, b, c, d>>[o + 1]]
ReadLine(op, line, order) ==
  [NodeRequest(op, 4 * line, 4, LineOf(0, 0, 0, 0), {}, 0) EXCEPT !.order = order]
WriteLine(op, addr, be, n) ==
  NodeRequest(op, addr, 4, LineOf(1, 3, 2, 1), be, n)
AtomicOn(op, sub, addr, len, big) ==
  [NodeRequest(op, addr, len, LineOf(3, 2, 1, 3), 0 .. 3, 1)
     EXCEPT !.sub = sub, !.big = big]
Compares(addr, len, data) == NodeRequest("AtomicCompare", addr, len, data, 0 .. 3, 1)

Arithmetic ==
  {AtomicOn("AtomicLoad", "ADD", 0, 1, FALSE),
   AtomicOn("AtomicStore", "ADD", 2, 2, FALSE),
   AtomicOn("AtomicLoad", "ADD", 0, 4, TRUE),
   AtomicOn("AtomicStore", "CLR", 0, 2, TRUE),
   AtomicOn("AtomicLoad", "CLR", 3, 1, FALSE)}
Exchanges ==
  {AtomicOn("AtomicSwap", "-", 1, 1, FALSE), AtomicOn("AtomicSwap", "-", 0, 4, FALSE),
   Compares(0, 2, LineOf(2, 3, 0, 0)), Compares(0, 2, LineOf(1, 3, 0, 0)),
   Compares(2, 2, LineOf(0, 0, 0, 2)), Compares(3, 2, LineOf(0, 0, 1, 3)),
   Compares(0, 4, LineOf(2, 1, 3, 3)), Compares(2, 4, LineOf(3, 3, 0, 3))}
Moves ==
  {WriteLine("WriteNoSnpFull", 0, 0 .. 3, 2), WriteLine("WriteNoSnpPtl", 0, {1, 2}, 1),
   WriteLine("WriteNoSnpPtl", 2, {3}, 2), ReadLine("ReadNoSnp", 0, 1),
   ReadLine("ReadNoSnp", 0, 0), ReadLine("ReadNoSnpSep", 0, 0),
   ReadLine("CleanShared", 0, 0)}
OtherLine ==
  {WriteLine("WriteNoSnpFull", 4, 0 .. 3, 1), ReadLine("ReadNoSnp", 1, 1),
   AtomicOn("AtomicSwap", "-", 4, 2, FALSE)}
NodePrograms ==
  {<<x, y>> : x \in Arithmetic \cup Exchanges \cup Moves,
              y \in Moves \cup {AtomicOn("AtomicLoad", "ADD", 0, 4, FALSE)}}
  \cup {<<x, z, y>> : x \in {ReadLine("ReadNoSnp", 0, 1),
                             AtomicOn("AtomicLoad", "ADD", 0, 2, FALSE)},
                      y \in Moves, z \in OtherLine}
NodeMemories == { [a \in 0 .. 8 |-> <<2, 1, 0, 3, 1, 2, 3, 0, 0>>[a + 1]] }

Slave == INSTANCE ChiSlaveNode WITH
  Programs <- NodePrograms, Memories <- NodeMemories, Byte <- 4,
  CACHELINE_SZ <- 4, Ids <- {0, 1}

-----------------------------------------------------------------------------
ASSUME Constants ==
  /\ Dvm!DvmConstants

(* The variables a part does not use.                                      *)
rest_ace ==
  << paced, m_list, waiting, pending, replies, execs, sent, got, repeated,
     m_receivedDVM, txn, up, home, toHome, m_toggle, spoiled, since,
     misread, program, first, m_reqList, m_txn, m_ids, m_txList, atomic,
     slave, rsp, dat, flits >>
rest_dvm ==
  << scenario, slot, m_monitor, req, tr, running, asked, m_overlapping_tx,
     m_downstream_fifo, m_port_set, m_lock, release, mem, last, broken,
     crowded, reserved, evaded, torn, m_receivedDVM, txn, up, home, toHome,
     m_toggle, spoiled, since, misread, program, first, m_reqList, m_txn,
     m_ids, m_txList, atomic, slave, rsp, dat, flits >>
rest_chi ==
  << tr, m_overlapping_tx, m_snoop_engine_fifo, m_downstream_fifo,
     m_port_set, m_lock, release, broken, crowded, paced, m_list, waiting,
     pending, replies, execs, sent, got, repeated, program, first,
     m_reqList, m_txn, m_ids, m_txList, atomic, slave, rsp, dat, flits >>
rest_slave ==
  << scenario, slot, m_monitor, req, tr, running, asked, m_overlapping_tx,
     m_snoop_engine_fifo, m_downstream_fifo, m_port_set, m_lock, release,
     last, broken, crowded, reserved, evaded, torn, paced, m_list, waiting,
     pending, replies, execs, repeated, m_receivedDVM, txn, up, home,
     toHome, spoiled, since, misread >>

Init ==
  \/ /\ part = "ace" /\ Ace!Init
     /\ paced = 0 /\ m_list = 0 /\ waiting = 0 /\ pending = 0 /\ replies = 0 /\
         execs = 0 /\ sent = 0 /\ got = 0 /\ repeated = 0 /\ m_receivedDVM = 0 /\
         txn = 0 /\ up = 0 /\ home = 0 /\ toHome = 0 /\ m_toggle = 0 /\ spoiled = 0 /\
         since = 0 /\ misread = 0 /\ program = 0 /\ first = 0 /\ m_reqList = 0 /\
         m_txn = 0 /\ m_ids = 0 /\ m_txList = 0 /\ atomic = 0 /\ slave = 0 /\ rsp = 0 /\
         dat = 0 /\ flits = 0
  \/ /\ part = "dvm" /\ Dvm!Init
     /\ scenario = 0 /\ slot = 0 /\ m_monitor = 0 /\ req = 0 /\ tr = 0 /\
         running = 0 /\ asked = 0 /\ m_overlapping_tx = 0 /\
         m_downstream_fifo = 0 /\ m_port_set = 0 /\ m_lock = 0 /\ release = 0 /\
         mem = 0 /\ last = 0 /\ broken = 0 /\ crowded = 0 /\ reserved = 0 /\
         evaded = 0 /\ torn = 0 /\ m_receivedDVM = 0 /\ txn = 0 /\ up = 0 /\ home = 0 /\
         toHome = 0 /\ m_toggle = 0 /\ spoiled = 0 /\ since = 0 /\ misread = 0 /\
         program = 0 /\ first = 0 /\ m_reqList = 0 /\ m_txn = 0 /\ m_ids = 0 /\
         m_txList = 0 /\ atomic = 0 /\ slave = 0 /\ rsp = 0 /\ dat = 0 /\ flits = 0
  \/ /\ part = "chi" /\ Chi!Init
     /\ tr = 0 /\ m_overlapping_tx = 0 /\ m_snoop_engine_fifo = 0 /\
         m_downstream_fifo = 0 /\ m_port_set = 0 /\ m_lock = 0 /\ release = 0 /\
         broken = 0 /\ crowded = 0 /\ paced = 0 /\ m_list = 0 /\ waiting = 0 /\
         pending = 0 /\ replies = 0 /\ execs = 0 /\ sent = 0 /\ got = 0 /\
         repeated = 0 /\ program = 0 /\ first = 0 /\ m_reqList = 0 /\ m_txn = 0 /\
         m_ids = 0 /\ m_txList = 0 /\ atomic = 0 /\ slave = 0 /\ rsp = 0 /\ dat = 0 /\
         flits = 0
  \/ /\ part = "slave" /\ Slave!Init
     /\ scenario = 0 /\ slot = 0 /\ m_monitor = 0 /\ req = 0 /\ tr = 0 /\
         running = 0 /\ asked = 0 /\ m_overlapping_tx = 0 /\
         m_snoop_engine_fifo = 0 /\ m_downstream_fifo = 0 /\ m_port_set = 0 /\
         m_lock = 0 /\ release = 0 /\ last = 0 /\ broken = 0 /\ crowded = 0 /\
         reserved = 0 /\ evaded = 0 /\ torn = 0 /\ paced = 0 /\ m_list = 0 /\
         waiting = 0 /\ pending = 0 /\ replies = 0 /\ execs = 0 /\ repeated = 0 /\
         m_receivedDVM = 0 /\ txn = 0 /\ up = 0 /\ home = 0 /\ toHome = 0 /\
         spoiled = 0 /\ since = 0 /\ misread = 0

Next ==
  /\ UNCHANGED part
  /\ \/ part = "ace" /\ Ace!Next /\ UNCHANGED rest_ace
     \/ part = "dvm" /\ Dvm!Next /\ UNCHANGED rest_dvm
     \/ part = "chi" /\ Chi!Next /\ UNCHANGED rest_chi
     \/ part = "slave" /\ Slave!Next /\ UNCHANGED rest_slave

vars == << part, scenario, slot, m_monitor, req, tr, running, asked,
           m_overlapping_tx, m_snoop_engine_fifo, m_downstream_fifo,
           m_port_set, m_lock, release, mem, last, broken, crowded,
           reserved, evaded, torn, paced, m_list, waiting, pending, replies,
           execs, sent, got, repeated, m_receivedDVM, txn, up, home, toHome,
           m_toggle, spoiled, since, misread, program, first, m_reqList,
           m_txn, m_ids, m_txList, atomic, slave, rsp, dat, flits >>

Spec == Init /\ [][Next]_vars

-----------------------------------------------------------------------------
(* The properties of the parts, under their names.                         *)

(* Type correctness of each part (AceCoherence, AceDvm, ChiCoherence).     *)
TypeOK ==
  /\ part = "ace" => Ace!TypeOK
  /\ part = "dvm" => Dvm!TypeOK
  /\ part = "chi" => Chi!TypeOK

(* No store is lost when two transactions work on parts of one line.       *)
StoresSurvive == part = "ace" => Ace!StoresSurvive

(* A unique line is in no other cache, every copy of a line holds the last *)
(* store to it, the memory holds it unless a dirty copy or a transfer      *)
(* does, reads that allocate no line bring it back, and snoop filters miss *)
(* no copy.                                                                *)
CachesCoherent ==
  /\ part = "ace" =>
       /\ Ace!UniqueAlone /\ Ace!FreshCopies /\ Ace!FreshMemory /\ Ace!ReadOnceFresh
  /\ part = "chi" =>
       /\ Chi!UniqueAlone /\ Chi!FreshCopies /\ Chi!FreshMemory /\ Chi!ReadOnceFresh /\ Chi!FilterCovers

(* Snoops, write-backs and ordered transactions never wait for each other  *)
(* in a ring, no transaction waits with no message on its way, and a home  *)
(* node is left with no identifier in use.                                 *)
NothingWaitsInRing ==
  /\ part = "ace" =>
       /\ Ace!NoRing
  /\ part = "chi" =>
       /\ Chi!IdsReturned /\ Chi!AckExpected /\ Chi!NotStuck

(* An exclusive store that succeeds was not overtaken by another store, as *)
(* long as its line stayed in the cache.                                   *)
ExclusivesHold ==
  /\ part = "ace" =>
       /\ Ace!ExclusiveWhileHeld
  /\ part = "chi" =>
       /\ Chi!ExclusiveWhileHeld

(* Every DVM Sync ends with one Complete and Completes on their way are    *)
(* the ones waited for, as long as no tracker is given to a second thread, *)
(* which never happens to masters that take turns; an operation on virtual *)
(* memory of CHI completes when every node got its snoop.                  *)
DvmCompletes ==
  /\ part = "dvm" =>
       /\ Dvm!SyncsComplete /\ Dvm!PacedNeverRepeats /\ Dvm!EveryCompleteCounts
  /\ part = "chi" =>
       /\ Chi!DvmSynced

(* The slave node answers each request once, in the form its opcode asks   *)
(* for, with what the requests before it on its line left; the memory ends *)
(* as all of them made it, and every identifier comes back.                *)
SlaveNodeAnswers ==
  /\ part = "slave" =>
       /\ Slave!DataInOrder /\ Slave!AnsweredOnce

=============================================================================
