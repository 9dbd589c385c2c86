-------------------------- MODULE CheckedChannels --------------------------
(***************************************************************************)
(* What the protocol checkers of AXI and ACE share: the channels they look *)
(* at, driven with traffic that is legal or wrong in one way and with all  *)
(* delays of valid and ready, and the checks of the handshakes.            *)
(***************************************************************************)
EXTENDS Integers, Sequences, SequencesExt

CONSTANTS
  Scenarios,    (* [traffic, fault, wrong, lazy, version, gaps, resets ...]:
                   what the channels carry, a channel and a way to break the
                   handshake on it, the errors that are to be reported, the
                   channels that may delay, the version of the protocol,
                   whether gaps in strobes are allowed, how often the reset
                   falls.                                                  *)
  Channels,
  Pulses,       (* The channels without ready: valid for a single clock.   *)
  DATA_BUS_BYTES,
  max_clks,     (* After so many clocks a channel is said to hang.         *)
  max_depth,    (* Transactions the checkers can follow.                   *)
  Patience      (* How long a channel delays at most.                      *)

VARIABLES
  scenario, resetn, resets,
  pos,          (* How many items of its traffic each channel transferred. *)
  valid, ready, waited, twisted, broken,
                (* The signals of each channel, the clocks it has waited,
                   whether its payload was changed, whether the handshake was
                   broken.                                                 *)
  saved,        (* monitor_xchannel_stable: the payload it compares with.  *)
  monitor,      (* HandshakeMonitor: [m_valid_wait, m_ready_wait].         *)
  counts,       (* axi_handshakes_checker: its counters and lists.         *)
  errors        (* What was reported.                                      *)

channels == <<scenario, resetn, resets, pos, valid, ready, waited, twisted,
              broken>>
monitors == <<saved, monitor, counts>>

Nothing == [id |-> -1]
NoWait == [m_valid_wait |-> 0, m_ready_wait |-> 0]
NoCounts == [m_rt |-> 0, m_wd |-> 0, m_b |-> 0, m_aw |-> 0, m_wlast |-> 0,
             m_awids |-> <<>>, m_wids |-> <<>>, m_bids |-> <<>>]
Align(a, n) == (a \div n) * n
When(condition, error) == IF condition THEN {error} ELSE {}
Without(list, i) == SubSeq(list, 1, i - 1) \o SubSeq(list, i + 1, Len(list))

InitChannels ==
  /\ scenario \in Scenarios /\ resetn = TRUE /\ resets = 0
  /\ pos = [c \in Channels |-> 0]
  /\ valid = [c \in Channels |-> FALSE]
  /\ ready = [c \in Channels |-> c \in Pulses]
  /\ waited = [c \in Channels |-> 0] /\ twisted = {} /\ broken = FALSE
  /\ saved = [c \in Channels |-> Nothing]
  /\ monitor = [c \in Channels |-> NoWait] /\ counts = NoCounts
  /\ errors = {}
-----------------------------------------------------------------------------
(* The channels.                                                           *)

Item(c) == scenario.traffic[c][pos[c] + 1]
Payload(c) == <<Item(c), c \in twisted>>
Transfers(c) == valid[c] /\ ready[c]

(* Whether channel c may put its next item on, when the channels have      *)
(* transferred `done' items.                                               *)
Due(c, done) ==
  /\ done[c] < Len(scenario.traffic[c])
  /\ \A d \in scenario.traffic[c][done[c] + 1].after : done[d[1]] >= d[2]

Over == \A c \in Channels : pos[c] = Len(scenario.traffic[c])

Holds(c) == valid[c] /\ ~ready[c]

Faulty(c, kind) == scenario.fault = <<c, kind>>

(* The channels that may be late to be valid, or not ready, at an edge.    *)
MayDelay(kind) ==
  {c \in scenario.lazy : waited[c] < Patience \/ Faulty(c, kind)}

MustDelay(kind) == {c \in Channels : Faulty(c, kind)}

(* The signal valid of a channel after an edge.                            *)
ValidNext(c, late, done) ==
  IF Holds(c) THEN ~(c \in late /\ ~broken /\ Faulty(c, "drops"))
  ELSE Due(c, done) /\ c \notin late

drive ==
  LET done == [c \in Channels |-> pos[c] + (IF Transfers(c) THEN 1 ELSE 0)]
  IN /\ pos' = done
     /\ \E late \in SUBSET {c \in MayDelay("never valid") : Due(c, done)} :
          valid' = [c \in Channels |->
                      ValidNext(c, late \cup MustDelay("never valid"), done)]
     /\ \E busy \in SUBSET {c \in MayDelay("never ready") \ Pulses : valid'[c]} :
          ready' = [c \in Channels |->
                      c \notin busy \cup MustDelay("never ready")]
     /\ waited' = [c \in Channels |->
                     IF Transfers(c) \/ valid'[c] # valid[c]
                        \/ ~(valid'[c] \/ Due(c, done)) THEN 0
                     ELSE waited[c] + 1]
     /\ twisted' = (twisted \ {c \in Channels : Transfers(c)}) 
                 \cup {c \in Channels : Holds(c) /\ Faulty(c, "changes")}
     /\ broken' = (broken \/ twisted' # {}
                   \/ \E c \in Channels : Holds(c) /\ ~valid'[c])
-----------------------------------------------------------------------------
(* monitor_xchannel_stable: it samples when valid rises and ready is low,  *)
(* and compares at every edge until ready is high.                         *)

(* The mutant compares with the sample before.                             *)
MutantUnstable(c) == FALSE

Unstable(c) == saved[c] # Nothing /\ saved[c] # Payload(c)

samples ==
  saved' = [c \in Channels |->
              IF ~valid[c] /\ valid'[c] /\ ~ready'[c] THEN Payload(c)'
              ELSE IF ready[c] THEN Nothing
              ELSE saved[c]]
-----------------------------------------------------------------------------
(* Transactions and strobes.                                               *)

FirstWith(list, id) ==
  LET here == {i \in 1 .. Len(list) : list[i].id = id}
  IN IF here = {} THEN 0 ELSE CHOOSE i \in here : \A j \in here : i <= j

(* The lanes that beat `beat' of a transaction may use.                    *)
Lanes(t) ==
  LET first == Align(t.addr, t.size)
      a == IF t.beat = 1 \/ t.burst = "FIXED" THEN first
           ELSE first + (t.beat - 1) * t.size
      low == IF t.beat = 1 THEN t.addr % DATA_BUS_BYTES ELSE a % DATA_BUS_BYTES
  IN low .. (a % DATA_BUS_BYTES) + t.size - 1

(* The mutant does not look below the first lane.                          *)
MutantCheckWstrb(t, strb, gaps) == \A l \in strb : \E k \in Lanes(t) : l <= k

CheckWstrb(t, strb, gaps) ==
  /\ strb \subseteq Lanes(t)
  /\ ~gaps =>
       IF t.beat = t.beats
         THEN \A l \in Lanes(t) :
                /\ (\A k \in Lanes(t) : l <= k) => l \in strb
                /\ l \in strb => \A k \in Lanes(t) : k < l => k \in strb
         ELSE Lanes(t) \subseteq strb

-----------------------------------------------------------------------------
(* check_axi_handshakes.                                                   *)

(* Whether a channel of AXI is expected to become valid.                   *)
Expected(c) ==
  CASE c = "r" -> counts.m_rt # 0
    [] c = "aw" -> counts.m_wd < 0
    [] c = "w" -> counts.m_wd > 0
    [] c = "b" -> counts.m_b # 0
    [] OTHER -> FALSE

(* The mutant keeps the clocks that were waited for a transfer.            *)
MutantRun(c, inc_valid) ==
  [monitor[c] EXCEPT
     !.m_valid_wait = @ + (IF ~valid[c] /\ inc_valid THEN 1 ELSE 0),
     !.m_ready_wait = @ + (IF Holds(c) THEN 1 ELSE 0)]

run(c, inc_valid) ==
  IF Transfers(c) THEN NoWait
  ELSE [monitor[c] EXCEPT
         !.m_valid_wait = @ + (IF ~valid[c] /\ inc_valid THEN 1 ELSE 0),
         !.m_ready_wait = @ + (IF Holds(c) THEN 1 ELSE 0)]

HandshakeErrors(c, inc_valid) ==
  LET new == run(c, inc_valid)   old == monitor[c]
      reaches(f) == new[f] = max_clks /\ old[f] # max_clks
  IN When(reaches("m_valid_wait") \/ reaches("m_ready_wait"), "hangup")
     \cup When(~valid[c] /\ old.m_ready_wait > 0, "toggled")

IndexOf(list, id) ==
  LET here == {i \in 1 .. Len(list) : list[i] = id}
  IN IF here = {} THEN 0 ELSE CHOOSE i \in here : \A j \in here : i <= j

(* The data of a write were complete before its address, or the other way  *)
(* round: then a response is expected.                                     *)
CountAW(n, hasData) ==
  LET x == Item("aw")   i == IndexOf(n.m_wids, x.id)
      axi3 == scenario.version = "AXI3"
      met == (axi3 => i > 0) /\ n.m_wlast > n.m_aw
      m == [n EXCEPT !.m_wd = @ + x.beats]
  IN IF ~Transfers("aw") THEN n
     ELSE IF ~hasData
       THEN [n EXCEPT !.m_b = @ + 1, !.m_bids = Append(@, x.id)]
     ELSE IF met
       THEN [m EXCEPT !.m_b = @ + 1, !.m_wlast = @ - 1,
                      !.m_wids = IF axi3 THEN Without(@, i) ELSE @,
                      !.m_bids = Append(@, x.id)]
       ELSE [m EXCEPT !.m_aw = @ + 1, !.m_awids = Append(@, x.id)]

CountW(n) ==
  LET x == Item("w")   i == IndexOf(n.m_awids, x.id)
      axi3 == scenario.version = "AXI3"
      met == (axi3 => i > 0) /\ n.m_aw > n.m_wlast
      m == [n EXCEPT !.m_wd = @ - 1]
  IN IF ~Transfers("w") THEN n
     ELSE IF ~x.last THEN m
     ELSE IF met
       THEN [m EXCEPT !.m_b = @ + 1, !.m_aw = @ - 1,
                      !.m_awids = IF axi3 THEN Without(@, i) ELSE Tail(@),
                      !.m_bids = Append(@, IF axi3 THEN x.id
                                           ELSE Head(n.m_awids))]
       ELSE [m EXCEPT !.m_wlast = @ + 1,
                      !.m_wids = IF axi3 THEN Append(@, x.id) ELSE @]

(* The mutant forgets a response whose identifier is not the oldest.       *)
MutantCountB(n) ==
  IF Transfers("b") /\ IndexOf(n.m_bids, Item("b").id) = 1
    THEN [n EXCEPT !.m_b = @ - 1, !.m_bids = Tail(@)] ELSE n

CountB(n) ==
  LET i == IndexOf(n.m_bids, Item("b").id)
  IN IF Transfers("b") /\ i > 0
       THEN [n EXCEPT !.m_b = @ - 1, !.m_bids = Without(@, i)] ELSE n

CountR(n, beats) ==
  [n EXCEPT !.m_rt = @ + (IF Transfers("ar") THEN beats ELSE 0)
                       - (IF Transfers("r") THEN 1 ELSE 0)]

axi_handshakes_check(beats, hasData) ==
  CountB(CountW(CountAW(CountR(counts, beats), hasData)))
-----------------------------------------------------------------------------
(* Steps.                                                                  *)

(* An edge of the clock, as far as it is the same for all checkers;        *)
(* `expected' are the channels that are to become valid.                   *)
Edge(expected) ==
  /\ resetn /\ ~Over
  /\ \A c \in Channels : waited[c] <= max_clks + 1
  /\ UNCHANGED <<scenario, resetn, resets>>
  /\ drive /\ samples
  /\ monitor' = [c \in Channels |-> run(c, c \in expected)]

EdgeErrors(expected) ==
  UNION {HandshakeErrors(c, c \in expected) \cup When(Unstable(c), "unstable") :
         c \in Channels}

(* The reset takes the signals down and the checkers forget all; the       *)
(* traffic begins again.                                                   *)
Falls ==
  /\ resetn /\ resets < scenario.resets
  /\ resetn' = FALSE /\ resets' = resets + 1
  /\ pos' = [c \in Channels |-> 0]
  /\ valid' = [c \in Channels |-> Faulty(c, "keeps valid")]
  /\ ready' = [c \in Channels |-> c \in Pulses]
  /\ waited' = [c \in Channels |-> 0] /\ twisted' = {} /\ broken' = FALSE
  /\ saved' = [c \in Channels |-> Nothing]
  /\ monitor' = [c \in Channels |-> NoWait] /\ counts' = NoCounts
  /\ UNCHANGED <<scenario, errors>>

(* The first edge at which the reset is high again.                        *)
Released ==
  /\ ~resetn /\ resetn' = TRUE
  /\ valid' = [c \in Channels |-> FALSE]
  /\ errors' = errors \cup When(\E c \in Channels : valid[c], "reset")
  /\ UNCHANGED <<scenario, resets, pos, ready, waited, twisted, broken,
                 monitors>>
-----------------------------------------------------------------------------
(* Properties.                                                             *)

(* The checkers report what is wrong with the traffic and nothing else,    *)
(* whatever the delays of the channels.                                    *)
ReportsExactly ==
  /\ errors \subseteq scenario.wrong
  /\ /\ Over /\ resetn /\ resets = scenario.resets
     /\ scenario.fault = <<>> \/ broken \/ resets > 0
     => errors = scenario.wrong
  /\ (\E c \in Channels : waited[c] > max_clks + 1) => errors = scenario.wrong
=============================================================================
