------------------------------- MODULE AceDvm -------------------------------
(***************************************************************************)
(* DVM Sync messages of the ACE interconnect (iconnect-ace.h) and of the   *)
(* caches that answer them (cache-ace.h). A Sync is snooped by every other *)
(* master that takes part; each of them sends a DVM Complete back through  *)
(* the snoop engine; when all have, the master of the Sync is sent one.    *)
(*                                                                         *)
(* Every port has one tracker; those that collect are in m_list, and a     *)
(* Complete counts for the first of them that still waits for its port.    *)
(* SetRunning stores FALSE whatever it is given, so no tracker ever says   *)
(* that it is running.                                                     *)
(*                                                                         *)
(* A master sends its next Sync when it has the Complete of the last one   *)
(* and its transaction, which ends with the last snoop, has returned.      *)
(***************************************************************************)
EXTENDS Naturals, Sequences, FiniteSets, SequencesExt, Functions

CONSTANTS
  Masters,   (* The ACE masters that take part: SetForwardDVM(true).       *)
  MaxSyncs   (* Bound on the Syncs of a run.                               *)

(* What they must be: of one master alone nobody would send the Complete   *)
(* that ends its Sync.                                                     *)
DvmConstants ==
  IsFiniteSet(Masters) /\ \A p \in Masters : Masters # {p}

VARIABLES
  paced,                (* Whether the masters take turns                  *)
  m_snoop_engine_fifo,
  m_list,
  waiting,              (* The ports each tracker still waits for          *)
  pending,              (* The masters still to be snooped for a Sync      *)
  replies,              (* reply_dvm_complete threads not yet at the port  *)
  execs,                (* exec_dvm_complete threads under way             *)
  sent, got,            (* Syncs sent and Completes received               *)
  repeated              (* History: a tracker was given to a second thread *)

vars == <<paced, m_snoop_engine_fifo, m_list, waiting, pending, replies, execs,
          sent, got, repeated>>

Message(kind, p) == [kind |-> kind, port |-> p]

Messages == [kind : {"Sync", "Complete"}, port : Masters]

TypeOK ==
  /\ paced \in BOOLEAN /\ repeated \in BOOLEAN
  /\ m_snoop_engine_fifo \in Seq(Messages)
  /\ m_list \in Seq(Masters) /\ execs \in Seq(Masters)
  /\ waiting \in [Masters -> SUBSET Masters]
  /\ pending \in [Masters -> SUBSET Masters]
  /\ replies \in [Masters -> Nat]
  /\ sent \in [Masters -> Nat] /\ got \in [Masters -> Nat]

Init ==
  /\ paced \in BOOLEAN
  /\ m_snoop_engine_fifo = <<>> /\ m_list = <<>> /\ execs = <<>>
  /\ waiting = [p \in Masters |-> {}]
  /\ pending = [p \in Masters |-> {}]
  /\ replies = [p \in Masters |-> 0]
  /\ sent = [p \in Masters |-> 0] /\ got = [p \in Masters |-> 0]
  /\ repeated = FALSE

Outstanding(p) == got[p] < sent[p]

SyncsSent == FoldFunction(+, 0, sent)

Sync(p) ==
  /\ ~Outstanding(p) /\ pending[p] = {}
  /\ SyncsSent < MaxSyncs
  /\ paced => \A q \in Masters : ~Outstanding(q)
  /\ sent' = [sent EXCEPT ![p] = @ + 1]
  /\ m_snoop_engine_fifo' = Append(m_snoop_engine_fifo, Message("Sync", p))
  /\ UNCHANGED <<paced, m_list, waiting, pending, replies, execs, got,
                 repeated>>

StartCollectingFor(p) ==
  /\ waiting' = [waiting EXCEPT ![p] = @ \cup (Masters \ {p})]
  /\ m_list' = Append(m_list, p)

(* The mutant counts the Complete for every tracker.                       *)
MutantReceivedFromAll(q) ==
  waiting' = [p \in Masters |->
    IF p \in ToSet(m_list) THEN waiting[p] \ {q} ELSE waiting[p]]

ReceivedFrom(q) ==
  \E i \in DOMAIN m_list :
    /\ q \in waiting[m_list[i]]
    /\ \A j \in 1 .. i - 1 : q \notin waiting[m_list[j]]
    /\ waiting' = [waiting EXCEPT ![m_list[i]] = @ \ {q}]

(* GetDone: the first tracker all of whose ports are done, if there is     *)
(* one; a thread may already be taking care of it.                         *)
GetDone(list, wait) ==
  {list[i] : i \in {i \in DOMAIN list :
     wait[list[i]] = {} /\ \A j \in 1 .. i - 1 : wait[list[j]] # {}}}

(* handle_dvm_complete, once its port is done.                             *)
HandOver(done) ==
  \/ done = {} /\ UNCHANGED <<execs, repeated>>
  \/ \E p \in done : /\ execs' = Append(execs, p)
                     /\ repeated' = (repeated \/ p \in ToSet(execs))

snoop_engine_thread ==
  /\ m_snoop_engine_fifo # <<>>
  /\ m_snoop_engine_fifo' = Tail(m_snoop_engine_fifo)
  /\ LET p == Head(m_snoop_engine_fifo).port
     IN \/ /\ Head(m_snoop_engine_fifo).kind = "Sync"
           /\ StartCollectingFor(p)
           /\ pending' = [pending EXCEPT ![p] = Masters \ {p}]
           /\ UNCHANGED <<execs, repeated>>
        \/ /\ Head(m_snoop_engine_fifo).kind = "Complete"
           /\ ReceivedFrom(p)
           /\ HandOver(GetDone(m_list, waiting'))
           /\ UNCHANGED <<m_list, pending>>
  /\ UNCHANGED <<paced, replies, sent, got>>

b_transport_snoop(p, m) ==
  /\ m \in pending[p]
  /\ pending' = [pending EXCEPT ![p] = @ \ {m}]
  /\ replies' = [replies EXCEPT ![m] = @ + 1]
  /\ UNCHANGED <<paced, m_snoop_engine_fifo, m_list, waiting, execs, sent, got,
                 repeated>>

reply_dvm_complete(m) ==
  /\ replies[m] > 0
  /\ replies' = [replies EXCEPT ![m] = @ - 1]
  /\ m_snoop_engine_fifo' = Append(m_snoop_engine_fifo, Message("Complete", m))
  /\ UNCHANGED <<paced, m_list, waiting, pending, execs, sent, got, repeated>>

(* std::list::remove.                                                      *)
Without(list, p) ==
  LET rest[n \in 0 .. Len(list)] ==
        IF n = 0 THEN <<>>
        ELSE IF list[n] = p THEN rest[n - 1] ELSE Append(rest[n - 1], list[n])
  IN  rest[Len(list)]

(* The mutant leaves the tracker on the list.                              *)
MutantExecKeepsTracker(i) ==
  /\ got' = [got EXCEPT ![execs[i]] = @ + 1]
  /\ execs' = RemoveAt(execs, i)
  /\ UNCHANGED <<paced, m_snoop_engine_fifo, m_list, waiting, pending, replies,
                 sent, repeated>>

(* The master is snooped with the Complete, and only then is its tracker   *)
(* taken off the list.                                                     *)
exec_dvm_complete(i) ==
  /\ got' = [got EXCEPT ![execs[i]] = @ + 1]
  /\ m_list' = Without(m_list, execs[i])
  /\ execs' = RemoveAt(execs, i)
  /\ UNCHANGED <<paced, m_snoop_engine_fifo, waiting, pending, replies, sent,
                 repeated>>

Next ==
  \/ \E p \in Masters : Sync(p) \/ reply_dvm_complete(p)
  \/ snoop_engine_thread
  \/ \E p, m \in Masters : b_transport_snoop(p, m)
  \/ \E i \in DOMAIN execs : exec_dvm_complete(i)

Spec == Init /\ [][Next]_vars

-----------------------------------------------------------------------------
(* When nothing moves any more, every Sync has had its Complete and no     *)
(* master had one too many, unless a tracker was given to a second thread: *)
(* two Completes for one Sync, and none for another.                       *)
Quiet == /\ m_snoop_engine_fifo = <<>> /\ execs = <<>>
         /\ \A p \in Masters : replies[p] = 0 /\ pending[p] = {}
SyncsComplete ==
  ~repeated /\ Quiet => \A p \in Masters : got[p] = sent[p]

(* That never happens to masters that take turns.                          *)
PacedNeverRepeats == paced => ~repeated

Places(s, x) == {i \in DOMAIN s : s[i] = x}

(* A Sync is not complete before every other master was snooped for it and *)
(* every Complete was counted once: what is on its way is what is waited   *)
(* for. The assertion of ReceivedFrom is never reached.                    *)
OnItsWay(m) ==
  Cardinality({p \in Masters : m \in pending[p]}) + replies[m]
    + Cardinality(Places(m_snoop_engine_fifo, Message("Complete", m)))
WaitedFor(m) == Cardinality({p \in Masters : m \in waiting[p]})
EveryCompleteCounts ==
  ~repeated => \A m \in Masters : OnItsWay(m) = WaitedFor(m)
=============================================================================
