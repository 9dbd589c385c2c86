--------------------------- MODULE RemotePortProofs ---------------------------
(***************************************************************************)
(* Proofs about RemotePort: for every program QEMU may send, every number  *)
(* of threads, wires and slots.                                            *)
(***************************************************************************)
EXTENDS RemotePort, SequenceTheorems, FiniteSetTheorems,
        WellFoundedInduction, TLAPS

-----------------------------------------------------------------------------
(* Sequences and numbers.                                                  *)

Elems(s) == {s[i] : i \in DOMAIN s}

LEMMA Appended ==
  ASSUME NEW S, NEW s \in Seq(S), NEW e \in S
  PROVE  /\ Append(s, e) \in Seq(S) /\ Len(s) \in Nat
         /\ Len(Append(s, e)) = Len(s) + 1
         /\ DOMAIN s = 1 .. Len(s)
         /\ DOMAIN Append(s, e) = (1 .. Len(s)) \cup {Len(s) + 1}
         /\ \A i \in 1 .. Len(s) : Append(s, e)[i] = s[i]
         /\ Append(s, e)[Len(s) + 1] = e
         /\ Elems(Append(s, e)) = Elems(s) \cup {e}
<1>1. /\ Append(s, e) \in Seq(S) /\ Len(s) \in Nat
      /\ Len(Append(s, e)) = Len(s) + 1
      /\ \A i \in 1 .. Len(s) : Append(s, e)[i] = s[i]
      /\ Append(s, e)[Len(s) + 1] = e
      /\ DOMAIN s = 1 .. Len(s)
  BY AppendProperties, LenProperties
<1>2. DOMAIN Append(s, e) = 1 .. Len(s) + 1
  BY <1>1, LenProperties
<1>3. DOMAIN Append(s, e) = (1 .. Len(s)) \cup {Len(s) + 1}
  BY <1>1, <1>2
<1> HIDE <1>2
<1>4. Elems(Append(s, e)) = Elems(s) \cup {e}
  BY <1>1, <1>3 DEF Elems
<1> QED
  BY <1>1, <1>3, <1>4

LEMMA Tailed ==
  ASSUME NEW S, NEW s \in Seq(S), s # <<>>
  PROVE  /\ Head(s) \in S /\ Tail(s) \in Seq(S)
         /\ Len(s) \in Nat \ {0} /\ Head(s) = s[1]
         /\ DOMAIN s = 1 .. Len(s) /\ DOMAIN Tail(s) = 1 .. Len(s) - 1
         /\ \A i \in 1 .. Len(s) - 1 : Tail(s)[i] = s[i + 1]
         /\ Elems(s) = Elems(Tail(s)) \cup {Head(s)}
<1>1. /\ Head(s) \in S /\ Tail(s) \in Seq(S)
      /\ Len(s) \in Nat \ {0} /\ Head(s) = s[1]
      /\ Len(Tail(s)) = Len(s) - 1
      /\ DOMAIN s = 1 .. Len(s) /\ DOMAIN Tail(s) = 1 .. Len(s) - 1
  BY HeadTailProperties, EmptySeq, LenProperties
<1>2. \A i \in 1 .. Len(s) - 1 : Tail(s)[i] = s[i + 1]
  BY <1>1, HeadTailProperties
<1>3. Elems(s) = Elems(Tail(s)) \cup {Head(s)}
  <2>1. ASSUME NEW i \in DOMAIN s
        PROVE  s[i] \in Elems(Tail(s)) \cup {Head(s)}
    <3>1. CASE i = 1
      BY <1>1, <3>1
    <3>2. CASE i # 1
      <4>1. i - 1 \in DOMAIN Tail(s) /\ (i - 1) + 1 = i
        BY <1>1, <3>2
      <4>2. Tail(s)[i - 1] = s[i]
        BY <1>1, <1>2, <4>1
      <4> QED
        BY <4>1, <4>2 DEF Elems
    <3> QED
      BY <3>1, <3>2
  <2>2. ASSUME NEW i \in DOMAIN Tail(s) PROVE Tail(s)[i] \in Elems(s)
    <3>1. i + 1 \in DOMAIN s /\ Tail(s)[i] = s[i + 1]
      BY <1>1, <1>2
    <3> QED
      BY <3>1 DEF Elems
  <2>3. 1 \in DOMAIN s
    BY <1>1
  <2>4. Head(s) \in Elems(s)
    BY <1>1, <2>3 DEF Elems
  <2> QED
    BY <2>1, <2>2, <2>4 DEF Elems
<1> QED
  BY <1>1, <1>2, <1>3

(* The sequence without its last element, and with another one there.      *)
LEMMA Popped ==
  ASSUME NEW S, NEW s \in Seq(S), s # <<>>
  PROVE  /\ SubSeq(s, 1, Len(s) - 1) \in Seq(S)
         /\ Len(s) \in Nat \ {0} /\ s[Len(s)] \in S
         /\ Len(SubSeq(s, 1, Len(s) - 1)) = Len(s) - 1
         /\ DOMAIN s = 1 .. Len(s)
         /\ DOMAIN SubSeq(s, 1, Len(s) - 1) = 1 .. Len(s) - 1
         /\ \A i \in 1 .. Len(s) - 1 : SubSeq(s, 1, Len(s) - 1)[i] = s[i]
<1>1. Len(s) \in Nat \ {0} /\ DOMAIN s = 1 .. Len(s)
  BY EmptySeq, LenProperties
<1>2. \A i \in 1 .. Len(s) - 1 : s[i] \in S
  BY <1>1, ElementOfSeq
<1>3. 1 \in Int /\ Len(s) - 1 \in Int
  BY <1>1
<1> DEFINE t == SubSeq(s, 1, Len(s) - 1)
           n == Len(s) - 1
<1>4. /\ t \in Seq(S) /\ Len(t) = IF 1 <= n THEN n - 1 + 1 ELSE 0
      /\ \A i \in 1 .. n - 1 + 1 : t[i] = s[1 + i - 1]
  BY <1>2, <1>3, SubSeqProperties
<1>5. DOMAIN t = 1 .. Len(t)
  BY <1>4, LenProperties
<1>6. n \in Nat
  BY <1>1
<1> HIDE DEF t, n
<1>7. Len(t) = n /\ \A i \in 1 .. n : t[i] = s[i]
  BY <1>4, <1>6
<1>8. s[Len(s)] \in S
  BY <1>1, ElementOfSeq
<1> QED
  BY <1>1, <1>4, <1>5, <1>7, <1>8 DEF t, n

LEMMA Replaced ==
  ASSUME NEW S, NEW s \in Seq(S), s # <<>>, NEW e \in S
  PROVE  /\ Append(SubSeq(s, 1, Len(s) - 1), e) \in Seq(S)
         /\ Len(s) \in Nat \ {0} /\ s[Len(s)] \in S
         /\ Len(Append(SubSeq(s, 1, Len(s) - 1), e)) = Len(s)
         /\ DOMAIN s = 1 .. Len(s)
         /\ DOMAIN Append(SubSeq(s, 1, Len(s) - 1), e) = 1 .. Len(s)
         /\ \A i \in 1 .. Len(s) :
              Append(SubSeq(s, 1, Len(s) - 1), e)[i]
                = IF i = Len(s) THEN e ELSE s[i]
<1> DEFINE t == SubSeq(s, 1, Len(s) - 1)
<1>1. /\ t \in Seq(S) /\ Len(t) = Len(s) - 1 /\ Len(s) \in Nat \ {0}
      /\ \A i \in 1 .. Len(s) - 1 : t[i] = s[i]
      /\ s[Len(s)] \in S /\ DOMAIN s = 1 .. Len(s)
  BY Popped
<1> HIDE DEF t
<1>2. /\ Append(t, e) \in Seq(S) /\ Len(Append(t, e)) = Len(t) + 1
      /\ \A i \in 1 .. Len(t) : Append(t, e)[i] = t[i]
      /\ Append(t, e)[Len(t) + 1] = e
  BY <1>1, Appended
<1>3. DOMAIN Append(t, e) = 1 .. Len(Append(t, e))
  BY <1>2, LenProperties
<1>4. Len(Append(t, e)) = Len(s)
  BY <1>1, <1>2
<1>5. \A i \in 1 .. Len(s) :
        Append(t, e)[i] = IF i = Len(s) THEN e ELSE s[i]
  BY <1>1, <1>2
<1> QED
  BY <1>1, <1>2, <1>3, <1>4, <1>5 DEF t

LEMMA Least ==
  ASSUME NEW T, T \subseteq Nat, T # {}
  PROVE  \E x \in T : \A y \in T : x <= y
<1> DEFINE R == OpToRel(<, Nat)
<1>1. IsWellFoundedOn(R, Nat)
  BY NatLessThanWellFounded
<1>2. \A x, y \in Nat : <<x, y>> \in R <=> x < y
  BY DEF OpToRel
<1> HIDE DEF R
<1>3. PICK x \in T : \A y \in T : ~(<<y, x>> \in R)
  BY <1>1, WFMin
<1>4. \A y \in T : x \in Nat /\ y \in Nat /\ ~(y < x)
  BY <1>2, <1>3
<1> QED
  BY <1>4

-----------------------------------------------------------------------------
(* Types.                                                                  *)

LEMMA PacketType ==
  ASSUME NEW cmd \in Cmds, NEW id \in Nat, NEW dev \in Devs \cup {"qemu"},
         NEW response \in BOOLEAN, NEW posted \in BOOLEAN,
         NEW addr \in Int, NEW val \in Int
  PROVE  /\ Packet(cmd, id, dev, response, posted, addr, val) \in Command
         /\ Packet(cmd, id, dev, response, posted, addr, val)
              = [cmd |-> cmd, id |-> id, dev |-> dev, response |-> response,
                 posted |-> posted, addr |-> addr, val |-> val]
BY DEF Packet, Command

LEMMA AnswerType ==
  ASSUME NEW p \in Command \cup FramedCommand, NEW val \in Int
  PROVE  /\ Answer(p, val) \in Command
         /\ Answer(p, val)
              = [cmd |-> p.cmd, id |-> p.id, dev |-> p.dev, response |-> TRUE,
                 posted |-> p.posted, addr |-> p.addr, val |-> val]
BY DEF Answer, Packet, Command, FramedCommand

(* A packet on the wire is the packet, with its lengths.                   *)
Carries(f, p) ==
  /\ f.cmd = p.cmd /\ f.id = p.id /\ f.dev = p.dev
  /\ f.response = p.response /\ f.posted = p.posted
  /\ f.addr = p.addr /\ f.val = p.val

LEMMA OtherFramed ==
  ASSUME NEW p \in Command, NEW size \in Int
  PROVE  /\ rp_encode_other(p, size) \in FramedCommand
         /\ Carries(rp_encode_other(p, size), p)
         /\ rp_encode_other(p, size).wrote
              = hdrSize + rp_encode_other(p, size).len
<1> DEFINE n == hdrSize + size
<1>1. n \in Int
  BY DEF hdrSize
<1>2. rp_encode_other(p, size) = Framed(p, size, n)
  BY DEF rp_encode_other
<1> HIDE DEF n
<1>3. Framed(p, size, n) \in FramedCommand
  BY <1>1 DEF Framed, FramedCommand, Command
<1>4. Carries(Framed(p, size, n), p)
      /\ Framed(p, size, n).wrote = n /\ Framed(p, size, n).len = size
  BY DEF Framed, Carries
<1> QED
  BY <1>2, <1>3, <1>4 DEF n

LEMMA BusFramed ==
  ASSUME NEW c, NEW p \in Command, p.cmd \in {"read", "write"},
         NEW be \in {0, 4}, be # 0 => "ext_base" \in c
  PROVE  /\ rp_encode_busaccess(c, p, 4, be) \in FramedCommand
         /\ Carries(rp_encode_busaccess(c, p, 4, be), p)
         /\ rp_encode_busaccess(c, p, 4, be).wrote
              = hdrSize + rp_encode_busaccess(c, p, 4, be).len
<1> DEFINE data == Payload(p.cmd, p.response, 4)
           enables == IF "ext_base" \in c THEN be ELSE 0
           written == IF p.cmd = "read" /\ ~p.response THEN 0
                      ELSE IF p.cmd = "write" /\ p.response THEN 0 ELSE 4
           len == busSize(c) - hdrSize + data + enables
           wrote == busSize(c) + be + written
<1>1. enables = be
  BY DEF Payload
<1>2. data \in Int /\ written = data
  BY DEF Payload, Command
<1>3. busSize(c) \in Int /\ hdrSize \in Int /\ be \in Int
  BY DEF busSize, hdrSize
<1>4. rp_encode_busaccess(c, p, 4, be) = Framed(p, len, wrote)
  BY DEF rp_encode_busaccess
<1> HIDE DEF data, enables, written
<1>5. len \in Int /\ wrote \in Int /\ wrote = hdrSize + len
  BY <1>1, <1>2, <1>3
<1> HIDE DEF len, wrote
<1>6. Framed(p, len, wrote) \in FramedCommand
  BY <1>5 DEF Framed, FramedCommand, Command
<1>7. /\ Carries(Framed(p, len, wrote), p)
      /\ Framed(p, len, wrote).wrote = wrote /\ Framed(p, len, wrote).len = len
  BY DEF Framed, Carries
<1> QED
  BY <1>4, <1>5, <1>6, <1>7

LEMMA ScenarioType ==
  ASSUME PortConstants, scenario \in Scenarios
  PROVE  /\ WellFormed(scenario) /\ Len(program) \in Nat
         /\ program
              \in Seq([cmd: Cmds, addr: Int, posted: BOOLEAN, val: Int])
         /\ DOMAIN program = 1 .. Len(program)
         /\ \A i \in 1 .. Len(program) :
              program[i] \in [cmd: Cmds, addr: Int, posted: BOOLEAN, val: Int]
<1>1. WellFormed(scenario)
  BY DEF PortConstants
<1>2. program \in Seq([cmd: Cmds, addr: Int, posted: BOOLEAN, val: Int])
  BY <1>1 DEF WellFormed, program
<1> QED
  BY <1>1, <1>2, LenProperties, ElementOfSeq

(* The changed wires in order: every one of them, and nothing else.        *)
LEMMA UpdatesOrder ==
  ASSUME NEW ws, IsFiniteSet(ws), ws \subseteq Nat
  PROVE  /\ Cardinality(ws) \in Nat
         /\ Updates(ws) \in Seq(ws) /\ Len(Updates(ws)) = Cardinality(ws)
         /\ DOMAIN Updates(ws) = 1 .. Cardinality(ws)
         /\ \A w \in ws : \E k \in DOMAIN Updates(ws) : Updates(ws)[k] = w
         /\ \A k, l \in DOMAIN Updates(ws) :
              Updates(ws)[k] = Updates(ws)[l] => k = l
<1> DEFINE below(w) == {v \in ws : v <= w}
           n == Cardinality(ws)
           f == [w \in ws |-> Cardinality(below(w))]
<1>1. n \in Nat
  BY FS_CardinalityType
<1>2. \A w \in ws : IsFiniteSet(below(w)) /\ Cardinality(below(w)) \in 1 .. n
  <2> SUFFICES ASSUME NEW w \in ws
               PROVE  /\ IsFiniteSet(below(w))
                      /\ Cardinality(below(w)) \in 1 .. n
    OBVIOUS
  <2>1. IsFiniteSet(below(w)) /\ Cardinality(below(w)) <= n
    <3>1. below(w) \in SUBSET ws
      OBVIOUS
    <3> HIDE DEF below
    <3> QED
      BY <3>1, FS_Subset
  <2>2. w \in below(w)
    OBVIOUS
  <2> HIDE DEF below
  <2>3. Cardinality(below(w)) \in Nat /\ Cardinality(below(w)) # 0
    BY <2>1, <2>2, FS_CardinalityType, FS_EmptySet
  <2> HIDE DEF n
  <2> QED
    BY <1>1, <2>1, <2>3
<1>3. \A v, w \in ws : Cardinality(below(v)) = Cardinality(below(w)) => v = w
  <2>1. ASSUME NEW v \in ws, NEW w \in ws, v < w,
               Cardinality(below(v)) = Cardinality(below(w))
        PROVE  FALSE
    <3>1. below(v) \in SUBSET below(w) /\ w \in below(w) /\ w \notin below(v)
      <4>1. v \in Nat /\ w \in Nat /\ v < w /\ ~(w <= v)
        BY <2>1
      <4>2. w <= w /\ \A x \in ws : x <= v => x <= w
        BY <4>1
      <4>3. \A x, y : y \in below(x) <=> y \in ws /\ y <= x
        OBVIOUS
      <4> HIDE DEF below
      <4> QED
        BY <4>1, <4>2, <4>3
    <3>2. IsFiniteSet(below(w))
      BY <1>2
    <3> HIDE DEF below
    <3> QED
      BY <2>1, <3>1, <3>2, FS_Subset
  <2> SUFFICES ASSUME NEW v \in ws, NEW w \in ws,
                      Cardinality(below(v)) = Cardinality(below(w))
               PROVE  v = w
    OBVIOUS
  <2>2. v \in Nat /\ w \in Nat
    OBVIOUS
  <2>3. v < w \/ w < v \/ v = w
    BY <2>2
  <2> QED
    BY <2>1, <2>3
<1> HIDE DEF below, n
<1>4. f \in Injection(ws, 1 .. n)
  BY <1>2, <1>3 DEF Injection, IsInjective
<1>5. Cardinality(1 .. n) = n /\ IsFiniteSet(1 .. n)
  BY <1>1, FS_Interval
<1>6. f \in Surjection(ws, 1 .. n)
  BY <1>4, <1>5, FS_Injection DEF n
<1>7. \A k \in 1 .. n : \E w \in ws : Cardinality(below(w)) = k
  BY <1>6 DEF Surjection
<1> DEFINE u == Updates(ws)
<1>8. u = [k \in 1 .. n |-> CHOOSE w \in ws : Cardinality(below(w)) = k]
  BY DEF Updates, n, below
<1>9. \A k \in 1 .. n : u[k] \in ws /\ Cardinality(below(u[k])) = k
  BY <1>7, <1>8
<1>10. DOMAIN u = 1 .. n
  BY <1>8
<1> HIDE DEF u
<1>11. u \in [1 .. n -> ws]
  BY <1>8, <1>9, <1>10
<1>12. u \in Seq(ws) /\ Len(u) = n
  BY <1>1, <1>10, <1>11, SeqDef, LenProperties
<1>13. \A w \in ws : \E k \in 1 .. n : u[k] = w
  <2> TAKE w \in ws
  <2>1. Cardinality(below(w)) \in 1 .. n
    BY <1>2
  <2>2. u[Cardinality(below(w))] = w
    BY <1>3, <1>9, <2>1
  <2> QED
    BY <2>1, <2>2
<1> QED
  BY <1>1, <1>9, <1>10, <1>12, <1>13 DEF u, n

-----------------------------------------------------------------------------
(* The stack of the adaptor: requests, of which all wait for QEMU, but for *)
(* the last one while it is served.                                        *)

Waits(k) == frames[k].slot # -1

Stacked ==
  /\ \A k \in DOMAIN frames :
       /\ ~frames[k].pkt.response
       /\ frames[k].pkt.cmd \in {"read", "write", "interrupt"}
       /\ Waits(k) => /\ frames[k].pkt.cmd \in {"read", "write"}
                      /\ frames[k].pkt.addr = Hole /\ ~frames[k].pkt.posted
  /\ phase \in {"access", "delta"} => frames # <<>>
  /\ \A k \in DOMAIN frames :
       Waits(k) <=> k < Len(frames) \/ phase \notin {"access", "delta"}
  /\ phase = "delta" => Top.pkt.cmd \in {"read", "write"}

Typed == TypeOK /\ FramesWhole /\ Stacked

LEMMA InitTyped ==
  ASSUME PortConstants, Init
  PROVE  Typed
<1>1. Len(program) \in Nat /\ scenario.accesses \in Nat
      /\ scenario.changes \in Nat
  BY ScenarioType DEF Init, WellFormed
<1>2. Free \in SlotState /\ Idle \in Thread
  BY DEF Free, SlotState, Idle, Thread
<1> HIDE DEF Idle, Free
<1>3. TypeOK
  <2>1. <<>> \in Seq(Command) /\ <<>> \in Seq(FramedCommand)
        /\ <<>> \in Seq(Frame) /\ <<>> \in Seq([id : Nat, val : Int])
    OBVIOUS
  <2>2. resp \in [Devs -> [Slot -> SlotState]]
    BY <1>2 DEF Init
  <2>3. master \in [Masters -> Thread] /\ wire_update \in Thread
    BY <1>2 DEF Init
  <2>4. sent \in 0 .. Len(program) /\ accesses \in 0 .. scenario.accesses
        /\ changes \in 0 .. scenario.changes
    BY <1>1 DEF Init
  <2>5. seen \in [Wires -> Int] /\ level \in [Wires -> {0, 1}]
    BY DEF Init
  <2>6. /\ mutex \in {"free", "thread"} /\ rp_pkt_event \in BOOLEAN
        /\ phase \in {"reset", "listen", "read", "sync", "access", "delta"}
        /\ caps \in {{}, scenario.caps} /\ rp_pkt_id \in Nat
        /\ changed \in SUBSET Wires /\ mem \in Int /\ out \in Int
    <3>1. /\ mutex = "free" /\ rp_pkt_event = FALSE /\ phase = "reset"
          /\ caps = {} /\ rp_pkt_id = 0 /\ changed = {} /\ mem = 0 /\ out = 0
      BY DEF Init
    <3>2. rp_pkt_event \in BOOLEAN
      BY <3>1, Zenon
    <3> QED
      BY <3>1, <3>2
  <2>7. /\ scenario \in Scenarios /\ answers = <<>> /\ toSc = <<>>
        /\ toQemu = <<>> /\ frames = <<>>
    BY DEF Init
  <2> QED
    BY <2>1, <2>2, <2>3, <2>4, <2>5, <2>6, <2>7 DEF TypeOK
<1>4. FramesWhole /\ Stacked
  BY DEF Init, FramesWhole, Stacked
<1> QED
  BY <1>3, <1>4 DEF Typed

LEMMA Stack ==
  ASSUME TypeOK, frames # <<>>
  PROVE  /\ Top \in Frame /\ Top = frames[Len(frames)] /\ Pop \in Seq(Frame)
         /\ Len(frames) \in Nat \ {0} /\ Len(Pop) = Len(frames) - 1
         /\ DOMAIN frames = 1 .. Len(frames)
         /\ DOMAIN Pop = 1 .. Len(frames) - 1
         /\ \A k \in 1 .. Len(frames) - 1 : Pop[k] = frames[k]
         /\ \A e \in Frame :
              /\ Append(Pop, e) \in Seq(Frame)
              /\ Len(Append(Pop, e)) = Len(frames)
              /\ DOMAIN Append(Pop, e) = 1 .. Len(frames)
              /\ \A k \in 1 .. Len(frames) :
                   Append(Pop, e)[k] = IF k = Len(frames) THEN e ELSE frames[k]
<1>1. frames \in Seq(Frame)
  BY DEF TypeOK
<1> QED
  BY <1>1, Popped, Replaced DEF Top, Pop

(* What the stack is when its top is replaced or taken away.               *)
LEMMA Typing ==
  ASSUME TypeOK, Stacked, frames # <<>>
  PROVE  /\ Top.pkt \in Command /\ Top.slot \in Int /\ Top.val \in Int
         /\ \A v \in Int : /\ [Top EXCEPT !.val = v] \in Frame
                           /\ [Top EXCEPT !.val = v].pkt = Top.pkt
                           /\ [Top EXCEPT !.val = v].slot = Top.slot
                           /\ [Top EXCEPT !.val = v].val = v
         /\ \A n \in Int : /\ [Top EXCEPT !.slot = n] \in Frame
                           /\ [Top EXCEPT !.slot = n].pkt = Top.pkt
                           /\ [Top EXCEPT !.slot = n].slot = n
                           /\ [Top EXCEPT !.slot = n].val = Top.val
         /\ \A n, v \in Int :
              /\ [Top EXCEPT !.slot = n, !.val = v] \in Frame
              /\ [Top EXCEPT !.slot = n, !.val = v].pkt = Top.pkt
              /\ [Top EXCEPT !.slot = n, !.val = v].slot = n
              /\ [Top EXCEPT !.slot = n, !.val = v].val = v
<1>1. Top \in Frame
  BY Stack
<1> HIDE DEF Top
<1> QED
  BY <1>1 DEF Frame

-----------------------------------------------------------------------------
(* Who waits for which slot. Of the slots r, the threads ms, the numbers   *)
(* held by frames, the update wu and the next number n:                    *)

OneEach(r) ==
  \A d \in Devs : \A i, j \in Slot :
    r[d][i].used /\ r[d][j].used /\ r[d][i].id = r[d][j].id => i = j

(* a used slot is that of a thread, a frame or the update that waits,      *)
SlotsOwned(r, ms, held, wu) ==
  /\ \A i \in Slot : r["mem"][i].used =>
       \/ \E m \in Masters : ms[m].at = "waits" /\ ms[m].id = r["mem"][i].id
       \/ r["mem"][i].id \in held
  /\ \A i \in Slot : r["wires"][i].used =>
       wu.at = "waits" /\ wu.id = r["wires"][i].id

(* which has its slot,                                                     *)
OwnersServed(r, ms, held, wu) ==
  /\ \A m \in Masters : ms[m].at = "waits" =>
       \E i \in Slot : r["mem"][i].used /\ r["mem"][i].id = ms[m].id
  /\ \A id \in held : \E i \in Slot : r["mem"][i].used /\ r["mem"][i].id = id
  /\ wu.at = "waits" =>
       \E i \in Slot : r["wires"][i].used /\ r["wires"][i].id = wu.id

(* nobody else has its number,                                             *)
OwnersDistinct(ms, held) ==
  /\ \A m, l \in Masters :
       ms[m].at = "waits" /\ ms[l].at = "waits" /\ ms[m].id = ms[l].id => m = l
  /\ \A m \in Masters : ms[m].at = "waits" => ms[m].id \notin held

(* which is an old one,                                                    *)
NumbersOld(r, ms, held, n) ==
  /\ \A d \in Devs : \A i \in Slot : r[d][i].used => r[d][i].id < n
  /\ \A m \in Masters : ms[m].at = "waits" => ms[m].id < n
  /\ held \subseteq 0 .. n - 1

(* and the answers are those to the numbers.                               *)
ValuesRight(r, ms) ==
  /\ \A d \in Devs : \A i \in Slot : r[d][i].valid =>
       r[d][i].used /\ r[d][i].val = Told(r[d][i].id)
  /\ \A m \in Masters : ms[m].val # 0 => ms[m].val = Told(ms[m].id)

Owned(r, ms, held, wu, n) ==
  /\ OneEach(r) /\ SlotsOwned(r, ms, held, wu) /\ OwnersServed(r, ms, held, wu)
  /\ OwnersDistinct(ms, held) /\ NumbersOld(r, ms, held, n)
  /\ ValuesRight(r, ms)

Held == {frames[k].slot : k \in DOMAIN frames} \ {-1}

SlotsApart ==
  \A k, l \in DOMAIN frames :
    Waits(k) /\ frames[k].slot = frames[l].slot => k = l
Slotted ==
  Owned(resp, master, Held, wire_update, rp_pkt_id) /\ SlotsApart

-----------------------------------------------------------------------------
(* What is done to the slots: one is taken for a number, one gets its      *)
(* answer, one is given back.                                              *)

Slotful(r) == r \in [Devs -> [Slot -> SlotState]]

Others(r, t, d, i) ==
  \A e \in Devs : \A j \in Slot : e # d \/ j # i => t[e][j] = r[e][j]

Taken(r, t, d, i, id) ==
  /\ Slotful(t) /\ d \in Devs /\ i \in Slot /\ id \in Nat
  /\ ~r[d][i].used /\ t[d][i].used /\ t[d][i].id = id
  /\ t[d][i].valid = r[d][i].valid
  /\ Others(r, t, d, i)

Filled(r, t, d, i, v) ==
  /\ Slotful(t) /\ d \in Devs /\ i \in Slot
  /\ r[d][i].used /\ t[d][i].used /\ t[d][i].id = r[d][i].id
  /\ t[d][i].valid /\ t[d][i].val = v
  /\ Others(r, t, d, i)

Freed(r, t, d, i) ==
  /\ Slotful(t) /\ d \in Devs /\ i \in Slot
  /\ r[d][i].used /\ ~t[d][i].used /\ ~t[d][i].valid
  /\ Others(r, t, d, i)

LEMMA FreeSlotFree ==
  ASSUME PortConstants, NEW r \in [Slot -> SlotState],
         \E i \in Slot : ~r[i].used
  PROVE  FreeSlot(r) \in Slot /\ ~r[FreeSlot(r)].used
<1> DEFINE T == {i \in Slot : ~r[i].used}
<1>1. T \subseteq Nat /\ T # {}
  BY DEF Slot
<1>2. PICK i \in T : \A j \in T : i <= j
  BY <1>1, Least
<1>3. i \in Slot /\ ~r[i].used
  BY <1>2
<1>4. \A j \in 1 .. i - 1 : r[j].used
  <2> TAKE j \in 1 .. i - 1
  <2>1. j \in Slot /\ ~(i <= j)
    BY <1>3 DEF Slot, PortConstants
  <2> QED
    BY <1>2, <2>1
<1> HIDE DEF T
<1> QED
  BY <1>3, <1>4 DEF FreeSlot

LEMMA ReserveTakes ==
  ASSUME PortConstants, Slotful(resp), NEW d \in Devs, NEW id \in Nat,
         \E i \in Slot : ~resp[d][i].used
  PROVE  \E i \in Slot : Taken(resp, Reserve(d, id), d, i, id)
<1> DEFINE i == FreeSlot(resp[d])
           s == [resp[d][i] EXCEPT !.used = TRUE, !.id = id]
           t == Reserve(d, id)
<1>1. resp[d] \in [Slot -> SlotState]
  BY DEF Slotful
<1>2. i \in Slot /\ ~resp[d][i].used
  BY <1>1, FreeSlotFree
<1>3. t = [resp EXCEPT ![d][i] = s]
  BY DEF Reserve
<1> HIDE DEF i
<1>4. /\ s \in SlotState /\ s.used /\ s.id = id
      /\ s.valid = resp[d][i].valid
  BY <1>1, <1>2 DEF SlotState
<1> HIDE DEF s, t
<1>5. /\ Slotful(t) /\ t[d][i] = s
      /\ \A e \in Devs : \A j \in Slot :
           e # d \/ j # i => t[e][j] = resp[e][j]
  BY <1>2, <1>3, <1>4 DEF Slotful
<1>6. Taken(resp, t, d, i, id)
  BY <1>2, <1>4, <1>5 DEF Taken, Others
<1> QED
  BY <1>2, <1>6 DEF t

LEMMA LookupOne ==
  ASSUME OneEach(resp), NEW d \in Devs, NEW i \in Slot, resp[d][i].used
  PROVE  response_lookup(d, resp[d][i].id) = {i}
  BY DEF OneEach, response_lookup

LEMMA DoneFrees ==
  ASSUME Slotful(resp), OneEach(resp), NEW d \in Devs, NEW i \in Slot,
         resp[d][i].used
  PROVE  Freed(resp, response_done(d, resp[d][i].id), d, i)
<1> DEFINE t == response_done(d, resp[d][i].id)
           s == [resp[d][i] EXCEPT !.used = FALSE, !.valid = FALSE]
           u == [j \in Slot |-> IF j = i THEN s ELSE resp[d][j]]
<1>1. t = [resp EXCEPT ![d] = u]
  <2>1. \A j \in Slot : j \in response_lookup(d, resp[d][i].id) <=> j = i
    BY LookupOne
  <2> QED
    BY <2>1 DEF response_done
<1>2. s \in SlotState /\ ~s.used /\ ~s.valid
  BY DEF Slotful, SlotState
<1> HIDE DEF s, t
<1>3. u \in [Slot -> SlotState] /\ u[i] = s
      /\ \A j \in Slot : j # i => u[j] = resp[d][j]
  BY <1>2 DEF Slotful
<1> HIDE DEF u
<1>4. Slotful(t) /\ t[d] = u /\ \A e \in Devs : e # d => t[e] = resp[e]
  BY <1>1, <1>3 DEF Slotful
<1>5. Freed(resp, t, d, i)
  BY <1>2, <1>3, <1>4 DEF Freed, Others
<1> QED
  BY <1>5 DEF t

(* The slots when the response p has come.                                 *)
Answered(p) ==
  [resp EXCEPT ![p.dev] = [i \in Slot |->
     IF i \in response_lookup(p.dev, p.id)
     THEN [@[i] EXCEPT !.valid = TRUE, !.val = p.val] ELSE @[i]]]

LEMMA AnswerFills ==
  ASSUME Slotful(resp), OneEach(resp), NEW p, p.dev \in Devs, p.val \in Int,
         NEW i \in Slot, resp[p.dev][i].used, resp[p.dev][i].id = p.id
  PROVE  Filled(resp, Answered(p), p.dev, i, p.val)
<1> DEFINE d == p.dev
           t == Answered(p)
           s == [resp[d][i] EXCEPT !.valid = TRUE, !.val = p.val]
           u == [j \in Slot |-> IF j = i THEN s ELSE resp[d][j]]
<1>1. t = [resp EXCEPT ![d] = u]
  <2>1. \A j \in Slot : j \in response_lookup(d, p.id) <=> j = i
    BY LookupOne
  <2> QED
    BY <2>1 DEF Answered
<1>2. s \in SlotState /\ s.valid /\ s.val = p.val
      /\ s.used = resp[d][i].used /\ s.id = resp[d][i].id
  <2>1. resp[d][i] \in SlotState /\ p.val \in Int
    BY DEF Slotful
  <2> HIDE DEF d
  <2> QED
    BY <2>1 DEF SlotState
<1> HIDE DEF s, t
<1>3. u \in [Slot -> SlotState] /\ u[i] = s
      /\ \A j \in Slot : j # i => u[j] = resp[d][j]
  BY <1>2 DEF Slotful
<1> HIDE DEF u
<1>4. Slotful(t) /\ t[d] = u /\ \A e \in Devs : e # d => t[e] = resp[e]
  BY <1>1, <1>3 DEF Slotful
<1>5. Filled(resp, t, d, i, p.val)
  BY <1>2, <1>3, <1>4 DEF Filled, Others
<1> QED
  BY <1>5 DEF t

-----------------------------------------------------------------------------
(* Each of them keeps the slots owned.                                     *)

Owners(ms, held, wu, n) ==
  /\ ms \in [Masters -> Thread] /\ held \subseteq Int
  /\ wu \in Thread /\ n \in Nat

LEMMA NumbersGrow ==
  ASSUME NEW r, Slotful(r), NEW ms, NEW held, NEW wu, NEW n,
         Owners(ms, held, wu, n), Owned(r, ms, held, wu, n),
         NEW n2 \in Nat, n <= n2
  PROVE  Owned(r, ms, held, wu, n2)
<1>1. NumbersOld(r, ms, held, n2)
  BY DEF Owned, NumbersOld, Slotful, SlotState, Owners, Thread
<1> QED
  BY <1>1 DEF Owned

LEMMA TakenIds ==
  ASSUME NEW r, Slotful(r), NEW ms, NEW held, NEW wu, NEW n,
         Owners(ms, held, wu, n), Owned(r, ms, held, wu, n),
         NEW t, NEW d, NEW i, NEW id, Taken(r, t, d, i, id), n <= id
  PROVE  /\ OneEach(t)
         /\ \A e \in Devs : \A j \in Slot : t[e][j].used => t[e][j].id < id + 1
         /\ \A e \in Devs : \A j \in Slot : t[e][j].valid =>
              t[e][j].used /\ t[e][j].val = Told(t[e][j].id)
<1>1. /\ Slotful(t) /\ d \in Devs /\ i \in Slot /\ id \in Nat
      /\ ~r[d][i].used /\ t[d][i].used /\ t[d][i].id = id
      /\ t[d][i].valid = r[d][i].valid /\ Others(r, t, d, i)
  BY DEF Taken
<1>2. \A e \in Devs : \A j \in Slot : r[e][j].used =>
        r[e][j].id < n /\ r[e][j].id < id /\ r[e][j].id < id + 1
  BY <1>1 DEF Owned, NumbersOld, Slotful, SlotState, Owners
<1>3. OneEach(t)
  <2> SUFFICES ASSUME NEW e \in Devs, NEW j \in Slot, NEW k \in Slot,
                      t[e][j].used, t[e][k].used, t[e][j].id = t[e][k].id
               PROVE  j = k
    BY DEF OneEach
  <2>1. CASE e # d \/ (j # i /\ k # i)
    BY <1>1, <2>1 DEF Others, Owned, OneEach
  <2>2. CASE e = d /\ j = i /\ k # i
    BY <1>1, <1>2, <2>2 DEF Others
  <2>3. CASE e = d /\ j # i /\ k = i
    BY <1>1, <1>2, <2>3 DEF Others
  <2> QED
    BY <2>1, <2>2, <2>3
<1>4. \A e \in Devs : \A j \in Slot : t[e][j].used => t[e][j].id < id + 1
  BY <1>1, <1>2 DEF Others
<1>5. \A e \in Devs : \A j \in Slot : t[e][j].valid =>
        t[e][j].used /\ t[e][j].val = Told(t[e][j].id)
  BY <1>1 DEF Others, Owned, ValuesRight
<1> QED
  BY <1>3, <1>4, <1>5

LEMMA MasterTakes ==
  ASSUME NEW r, Slotful(r), NEW ms, NEW held, NEW wu, NEW n,
         Owners(ms, held, wu, n), Owned(r, ms, held, wu, n),
         NEW t, NEW i, Taken(r, t, "mem", i, n),
         NEW m \in Masters, ms[m].at = "idle",
         NEW ms2 \in [Masters -> Thread],
         ms2[m] = [at |-> "waits", id |-> n, val |-> 0],
         \A l \in Masters : l # m => ms2[l] = ms[l]
  PROVE  Owned(t, ms2, held, wu, n + 1)
<1> DEFINE y == ms2[m]
<1>0. n \in Nat /\ n <= n
  BY DEF Owners
<1>1. y.at = "waits" /\ y.id = n /\ y.val = 0
  OBVIOUS
<1> HIDE DEF y
<1>2. /\ ms2[m].at = "waits" /\ ms2[m].id = n /\ ms2[m].val = 0
  BY <1>1 DEF y
<1>3. /\ OneEach(t)
      /\ \A e \in Devs : \A j \in Slot : t[e][j].used => t[e][j].id < n + 1
      /\ \A e \in Devs : \A j \in Slot : t[e][j].valid =>
           t[e][j].used /\ t[e][j].val = Told(t[e][j].id)
  BY <1>0, TakenIds
<1>4. /\ i \in Slot /\ ~r["mem"][i].used /\ t["mem"][i].used
      /\ t["mem"][i].id = n
      /\ \A j \in Slot : t["wires"][j] = r["wires"][j]
      /\ \A j \in Slot : j # i => t["mem"][j] = r["mem"][j]
  BY DEF Taken, Others, Devs
<1>5. SlotsOwned(t, ms2, held, wu)
  <2>1. ASSUME NEW j \in Slot, t["mem"][j].used
        PROVE  \/ \E l \in Masters : /\ ms2[l].at = "waits"
                                     /\ ms2[l].id = t["mem"][j].id
               \/ t["mem"][j].id \in held
    <3>1. CASE j = i
      BY <1>2, <1>4, <3>1
    <3>2. CASE j # i
      BY <1>4, <2>1, <3>2 DEF Owned, SlotsOwned
    <3> QED
      BY <3>1, <3>2
  <2> QED
    BY <1>4, <2>1 DEF SlotsOwned, Owned
<1>6. OwnersServed(t, ms2, held, wu)
  <2>1. ASSUME NEW l \in Masters, ms2[l].at = "waits"
        PROVE  \E j \in Slot : t["mem"][j].used /\ t["mem"][j].id = ms2[l].id
    <3>1. CASE l = m
      BY <1>2, <1>4, <3>1
    <3>2. CASE l # m
      <4>1. PICK j \in Slot : r["mem"][j].used /\ r["mem"][j].id = ms[l].id
        BY <2>1, <3>2 DEF Owned, OwnersServed
      <4> QED
        BY <1>4, <3>2, <4>1
    <3> QED
      BY <3>1, <3>2
  <2>2. ASSUME NEW id \in held
        PROVE  \E j \in Slot : t["mem"][j].used /\ t["mem"][j].id = id
    BY <1>4 DEF Owned, OwnersServed
  <2> QED
    BY <1>4, <2>1, <2>2 DEF OwnersServed, Owned
<1>7. OwnersDistinct(ms2, held)
  <2>1. \A l \in Masters : ms[l].at = "waits" => ms[l].id # n
    BY DEF Owned, NumbersOld, Owners, Thread
  <2>2. n \notin held
    BY DEF Owned, NumbersOld, Owners
  <2> QED
    BY <1>2, <2>1, <2>2 DEF OwnersDistinct, Owned
<1>8. NumbersOld(t, ms2, held, n + 1)
  <2>1. \A l \in Masters : ms2[l].at = "waits" => ms2[l].id < n + 1
    <3>1. \A l \in Masters : ms[l].at = "waits" => ms[l].id < n + 1
      BY DEF Owned, NumbersOld, Owners, Thread
    <3> QED
      BY <1>2, <3>1 DEF Owners
  <2>2. held \subseteq 0 .. (n + 1) - 1
    BY DEF Owned, NumbersOld, Owners
  <2> QED
    BY <1>3, <2>1, <2>2 DEF NumbersOld
<1>9. ValuesRight(t, ms2)
  BY <1>2, <1>3 DEF ValuesRight, Owned
<1> QED
  BY <1>3, <1>5, <1>6, <1>7, <1>8, <1>9 DEF Owned

LEMMA FrameTakes ==
  ASSUME NEW r, Slotful(r), NEW ms, NEW held, NEW wu, NEW n,
         Owners(ms, held, wu, n), Owned(r, ms, held, wu, n),
         NEW t, NEW i, Taken(r, t, "mem", i, n)
  PROVE  Owned(t, ms, held \cup {n}, wu, n + 1)
<1>0. n \in Nat /\ n <= n
  BY DEF Owners
<1>3. /\ OneEach(t)
      /\ \A e \in Devs : \A j \in Slot : t[e][j].used => t[e][j].id < n + 1
      /\ \A e \in Devs : \A j \in Slot : t[e][j].valid =>
           t[e][j].used /\ t[e][j].val = Told(t[e][j].id)
  BY <1>0, TakenIds
<1>4. /\ i \in Slot /\ ~r["mem"][i].used /\ t["mem"][i].used
      /\ t["mem"][i].id = n
      /\ \A j \in Slot : t["wires"][j] = r["wires"][j]
      /\ \A j \in Slot : j # i => t["mem"][j] = r["mem"][j]
  BY DEF Taken, Others, Devs
<1>5. SlotsOwned(t, ms, held \cup {n}, wu)
  BY <1>4 DEF SlotsOwned, Owned
<1>6. OwnersServed(t, ms, held \cup {n}, wu)
  BY <1>4 DEF OwnersServed, Owned
<1>7. OwnersDistinct(ms, held \cup {n})
  <2>1. \A l \in Masters : ms[l].at = "waits" => ms[l].id # n
    BY DEF Owned, NumbersOld, Owners, Thread
  <2> QED
    BY <2>1 DEF OwnersDistinct, Owned
<1>8. NumbersOld(t, ms, held \cup {n}, n + 1)
  <2>1. \A l \in Masters : ms[l].at = "waits" => ms[l].id < n + 1
    BY DEF Owned, NumbersOld, Owners, Thread
  <2>2. ASSUME NEW x \in held \cup {n} PROVE x \in 0 .. (n + 1) - 1
    <3>1. CASE x \in held
      <4>1. x \in 0 .. n - 1
        BY <3>1 DEF Owned, NumbersOld
      <4> QED
        BY <1>0, <4>1
    <3>2. CASE x = n
      BY <1>0, <3>2
    <3> QED
      BY <3>1, <3>2
  <2> QED
    BY <1>3, <2>1, <2>2 DEF NumbersOld
<1>9. ValuesRight(t, ms)
  BY <1>3 DEF ValuesRight, Owned
<1> QED
  BY <1>3, <1>5, <1>6, <1>7, <1>8, <1>9 DEF Owned

LEMMA UpdateTakes ==
  ASSUME NEW r, Slotful(r), NEW ms, NEW held, NEW wu, NEW n,
         Owners(ms, held, wu, n), Owned(r, ms, held, wu, n),
         wu.at = "idle",
         NEW t, NEW i, NEW id, Taken(r, t, "wires", i, id), n <= id,
         NEW wu2, wu2.at = "waits", wu2.id = id
  PROVE  Owned(t, ms, held, wu2, id + 1)
<1>3. /\ OneEach(t)
      /\ \A e \in Devs : \A j \in Slot : t[e][j].used => t[e][j].id < id + 1
      /\ \A e \in Devs : \A j \in Slot : t[e][j].valid =>
           t[e][j].used /\ t[e][j].val = Told(t[e][j].id)
  BY TakenIds
<1>4. /\ i \in Slot /\ ~r["wires"][i].used /\ t["wires"][i].used
      /\ t["wires"][i].id = id
      /\ \A j \in Slot : t["mem"][j] = r["mem"][j]
      /\ \A j \in Slot : j # i => t["wires"][j] = r["wires"][j]
  BY DEF Taken, Others, Devs
<1>5. SlotsOwned(t, ms, held, wu2)
  BY <1>4 DEF SlotsOwned, Owned
<1>6. OwnersServed(t, ms, held, wu2)
  BY <1>4 DEF OwnersServed, Owned
<1>7. OwnersDistinct(ms, held)
  BY DEF Owned
<1>8. NumbersOld(t, ms, held, id + 1)
  <2>0. id \in Nat
    BY DEF Taken
  <2>1. \A l \in Masters : ms[l].at = "waits" => ms[l].id < id + 1
    BY <2>0 DEF Owned, NumbersOld, Owners, Thread
  <2>2. held \subseteq 0 .. (id + 1) - 1
    BY <2>0 DEF Owned, NumbersOld, Owners
  <2> QED
    BY <1>3, <2>1, <2>2 DEF NumbersOld
<1>9. ValuesRight(t, ms)
  BY <1>3 DEF ValuesRight, Owned
<1> QED
  BY <1>3, <1>5, <1>6, <1>7, <1>8, <1>9 DEF Owned

LEMMA FilledOwned ==
  ASSUME NEW r, NEW ms, NEW held, NEW wu, NEW n, Owned(r, ms, held, wu, n),
         Slotful(r), NEW t, NEW d, NEW i, Filled(r, t, d, i, Told(r[d][i].id))
  PROVE  Owned(t, ms, held, wu, n)
<1>1. /\ d \in Devs /\ i \in Slot
      /\ t[d][i].valid /\ t[d][i].val = Told(t[d][i].id)
      /\ \A e \in Devs : \A j \in Slot :
           /\ t[e][j].used = r[e][j].used /\ t[e][j].id = r[e][j].id
           /\ e # d \/ j # i => t[e][j] = r[e][j]
  <2>1. ASSUME NEW e \in Devs, NEW j \in Slot
        PROVE  /\ t[e][j].used = r[e][j].used /\ t[e][j].id = r[e][j].id
               /\ e # d \/ j # i => t[e][j] = r[e][j]
    <3>1. CASE e = d /\ j = i
      <4>1. r[d][i] \in SlotState /\ t[d][i] \in SlotState
        BY DEF Filled, Slotful
      <4> QED
        BY <3>1, <4>1 DEF Filled, SlotState
    <3>2. CASE e # d \/ j # i
      BY <3>2 DEF Filled, Others
    <3> QED
      BY <3>1, <3>2
  <2> QED
    BY <2>1 DEF Filled
<1>2. OneEach(t)
  BY <1>1 DEF OneEach, Owned
<1>3. SlotsOwned(t, ms, held, wu)
  BY <1>1 DEF SlotsOwned, Owned, Devs
<1>4. OwnersServed(t, ms, held, wu)
  BY <1>1 DEF OwnersServed, Owned, Devs
<1>5. NumbersOld(t, ms, held, n)
  BY <1>1 DEF NumbersOld, Owned
<1>6. ValuesRight(t, ms)
  BY <1>1 DEF ValuesRight, Owned, Filled
<1> QED
  BY <1>2, <1>3, <1>4, <1>5, <1>6 DEF Owned

LEMMA FreedIds ==
  ASSUME NEW r, NEW ms, NEW held, NEW wu, NEW n, Owned(r, ms, held, wu, n),
         NEW t, NEW d, NEW i, Freed(r, t, d, i)
  PROVE  /\ OneEach(t)
         /\ \A e \in Devs : \A j \in Slot : t[e][j].used => t[e][j].id < n
         /\ \A e \in Devs : \A j \in Slot : t[e][j].valid =>
              t[e][j].used /\ t[e][j].val = Told(t[e][j].id)
         /\ \A e \in Devs : \A j \in Slot :
              t[e][j].used => r[e][j].used /\ t[e][j].id = r[e][j].id
         /\ \A e \in Devs : \A j \in Slot :
              r[e][j].used /\ (e = d => r[e][j].id # r[d][i].id)
                => t[e][j].used /\ t[e][j].id = r[e][j].id
         /\ \A j \in Slot : t[d][j].used => t[d][j].id # r[d][i].id
<1>1. /\ d \in Devs /\ i \in Slot /\ r[d][i].used
      /\ ~t[d][i].used /\ ~t[d][i].valid
      /\ \A e \in Devs : \A j \in Slot : e # d \/ j # i => t[e][j] = r[e][j]
  BY DEF Freed, Others
<1>2. \A e \in Devs : \A j \in Slot : t[e][j].used \/ t[e][j].valid =>
        (e # d \/ j # i) /\ t[e][j] = r[e][j]
  BY <1>1
<1>3. OneEach(t)
  BY <1>2 DEF OneEach, Owned
<1>4. \A e \in Devs : \A j \in Slot : t[e][j].used => t[e][j].id < n
  BY <1>2 DEF Owned, NumbersOld
<1>5. \A e \in Devs : \A j \in Slot : t[e][j].valid =>
        t[e][j].used /\ t[e][j].val = Told(t[e][j].id)
  BY <1>2 DEF Owned, ValuesRight
<1>6. \A j \in Slot : t[d][j].used => t[d][j].id # r[d][i].id
  BY <1>1, <1>2 DEF Owned, OneEach
<1> QED
  BY <1>1, <1>2, <1>3, <1>4, <1>5, <1>6

LEMMA MasterFrees ==
  ASSUME NEW r, NEW ms, NEW held, NEW wu, NEW n,
         Owners(ms, held, wu, n), Owned(r, ms, held, wu, n),
         NEW t, NEW i, Freed(r, t, "mem", i),
         NEW m \in Masters, ms[m].at = "waits", ms[m].id = r["mem"][i].id,
         NEW ms2 \in [Masters -> Thread],
         ms2[m].at = "idle", ms2[m].id = ms[m].id,
         ms2[m].val = Told(ms[m].id),
         \A l \in Masters : l # m => ms2[l] = ms[l]
  PROVE  Owned(t, ms2, held, wu, n)
<1>1. /\ OneEach(t)
      /\ \A e \in Devs : \A j \in Slot : t[e][j].used => t[e][j].id < n
      /\ \A e \in Devs : \A j \in Slot : t[e][j].valid =>
           t[e][j].used /\ t[e][j].val = Told(t[e][j].id)
      /\ \A j \in Slot :
           t["mem"][j].used => /\ r["mem"][j].used
                               /\ t["mem"][j].id = r["mem"][j].id
                               /\ t["mem"][j].id # ms[m].id
      /\ \A j \in Slot :
           r["mem"][j].used /\ r["mem"][j].id # ms[m].id
             => t["mem"][j].used /\ t["mem"][j].id = r["mem"][j].id
      /\ \A j \in Slot :
           (r["wires"][j].used <=> t["wires"][j].used)
             /\ (t["wires"][j].used => t["wires"][j].id = r["wires"][j].id)
  <2>1. "mem" \in Devs /\ "wires" \in Devs /\ "mem" # "wires"
    BY DEF Devs
  <2> QED
    BY <2>1, FreedIds
<1>2. \A l \in Masters : ms2[l].at = "waits" =>
        ms[l].at = "waits" /\ ms2[l].id = ms[l].id /\ l # m
  OBVIOUS
<1>3. SlotsOwned(t, ms2, held, wu)
  <2>1. ASSUME NEW j \in Slot, t["mem"][j].used
        PROVE  \/ \E l \in Masters : /\ ms2[l].at = "waits"
                                     /\ ms2[l].id = t["mem"][j].id
               \/ t["mem"][j].id \in held
    <3>1. r["mem"][j].used /\ t["mem"][j].id = r["mem"][j].id
          /\ r["mem"][j].id # ms[m].id
      BY <1>1, <2>1
    <3>2. CASE \E l \in Masters : /\ ms[l].at = "waits"
                                  /\ ms[l].id = r["mem"][j].id
      <4>1. PICK l \in Masters : ms[l].at = "waits" /\ ms[l].id = r["mem"][j].id
        BY <3>2
      <4>2. l # m
        BY <3>1, <4>1
      <4> QED
        BY <3>1, <4>1, <4>2
    <3>3. CASE r["mem"][j].id \in held
      BY <3>1, <3>3
    <3> QED
      BY <3>1, <3>2, <3>3 DEF Owned, SlotsOwned
  <2> QED
    BY <1>1, <2>1 DEF SlotsOwned, Owned
<1>4. OwnersServed(t, ms2, held, wu)
  <2>1. ASSUME NEW l \in Masters, ms2[l].at = "waits"
        PROVE  \E j \in Slot : t["mem"][j].used /\ t["mem"][j].id = ms2[l].id
    <3>1. ms[l].at = "waits" /\ ms2[l].id = ms[l].id /\ ms[l].id # ms[m].id
      BY <1>2, <2>1 DEF Owned, OwnersDistinct
    <3> QED
      BY <1>1, <3>1 DEF Owned, OwnersServed
  <2>2. ASSUME NEW id \in held
        PROVE  \E j \in Slot : t["mem"][j].used /\ t["mem"][j].id = id
    <3>1. id # ms[m].id
      BY DEF Owned, OwnersDistinct
    <3> QED
      BY <1>1, <3>1 DEF Owned, OwnersServed
  <2> QED
    BY <1>1, <2>1, <2>2 DEF OwnersServed, Owned
<1>5. OwnersDistinct(ms2, held)
  BY <1>2 DEF Owned, OwnersDistinct
<1>6. NumbersOld(t, ms2, held, n)
  BY <1>1, <1>2 DEF Owned, NumbersOld
<1>7. ValuesRight(t, ms2)
  BY <1>1 DEF Owned, ValuesRight
<1> QED
  BY <1>1, <1>3, <1>4, <1>5, <1>6, <1>7 DEF Owned

LEMMA FrameFrees ==
  ASSUME NEW r, NEW ms, NEW held, NEW wu, NEW n,
         Owners(ms, held, wu, n), Owned(r, ms, held, wu, n),
         NEW t, NEW i, Freed(r, t, "mem", i), r["mem"][i].id \in held
  PROVE  Owned(t, ms, held \ {r["mem"][i].id}, wu, n)
<1> DEFINE id == r["mem"][i].id
<1>1. /\ OneEach(t)
      /\ \A e \in Devs : \A j \in Slot : t[e][j].used => t[e][j].id < n
      /\ \A e \in Devs : \A j \in Slot : t[e][j].valid =>
           t[e][j].used /\ t[e][j].val = Told(t[e][j].id)
      /\ \A j \in Slot :
           t["mem"][j].used => /\ r["mem"][j].used
                               /\ t["mem"][j].id = r["mem"][j].id
                               /\ t["mem"][j].id # id
      /\ \A j \in Slot :
           r["mem"][j].used /\ r["mem"][j].id # id
             => t["mem"][j].used /\ t["mem"][j].id = r["mem"][j].id
      /\ \A j \in Slot :
           (r["wires"][j].used <=> t["wires"][j].used)
             /\ (t["wires"][j].used => t["wires"][j].id = r["wires"][j].id)
  <2>1. "mem" \in Devs /\ "wires" \in Devs /\ "mem" # "wires"
    BY DEF Devs
  <2> QED
    BY <2>1, FreedIds
<1> HIDE DEF id
<1>2. \A l \in Masters : ms[l].at = "waits" => ms[l].id # id
  BY DEF Owned, OwnersDistinct, id
<1>3. SlotsOwned(t, ms, held \ {id}, wu)
  <2>1. ASSUME NEW j \in Slot, t["mem"][j].used
        PROVE  \/ \E l \in Masters : /\ ms[l].at = "waits"
                                     /\ ms[l].id = t["mem"][j].id
               \/ t["mem"][j].id \in held \ {id}
    BY <1>1, <2>1 DEF Owned, SlotsOwned
  <2> QED
    BY <1>1, <2>1 DEF SlotsOwned, Owned
<1>4. OwnersServed(t, ms, held \ {id}, wu)
  BY <1>1, <1>2 DEF Owned, OwnersServed
<1>5. OwnersDistinct(ms, held \ {id})
  BY DEF Owned, OwnersDistinct
<1>6. NumbersOld(t, ms, held \ {id}, n)
  BY <1>1 DEF Owned, NumbersOld
<1>7. ValuesRight(t, ms)
  BY <1>1 DEF Owned, ValuesRight
<1> QED
  BY <1>1, <1>3, <1>4, <1>5, <1>6, <1>7 DEF Owned, id

LEMMA UpdateFrees ==
  ASSUME NEW r, NEW ms, NEW held, NEW wu, NEW n,
         Owners(ms, held, wu, n), Owned(r, ms, held, wu, n),
         NEW t, NEW i, Freed(r, t, "wires", i), r["wires"][i].id = wu.id,
         NEW wu2, wu2.at = "idle"
  PROVE  Owned(t, ms, held, wu2, n)
<1>1. /\ OneEach(t)
      /\ \A e \in Devs : \A j \in Slot : t[e][j].used => t[e][j].id < n
      /\ \A e \in Devs : \A j \in Slot : t[e][j].valid =>
           t[e][j].used /\ t[e][j].val = Told(t[e][j].id)
      /\ \A j \in Slot :
           (r["mem"][j].used <=> t["mem"][j].used)
             /\ (t["mem"][j].used => t["mem"][j].id = r["mem"][j].id)
      /\ \A j \in Slot : t["wires"][j].used =>
           r["wires"][j].used /\ r["wires"][j].id # wu.id
  <2>1. "mem" \in Devs /\ "wires" \in Devs /\ "mem" # "wires"
    BY DEF Devs
  <2> QED
    BY <2>1, FreedIds
<1>3. SlotsOwned(t, ms, held, wu2)
  BY <1>1 DEF Owned, SlotsOwned
<1>4. OwnersServed(t, ms, held, wu2)
  BY <1>1 DEF Owned, OwnersServed
<1>6. NumbersOld(t, ms, held, n)
  BY <1>1 DEF Owned, NumbersOld
<1>7. ValuesRight(t, ms)
  BY <1>1 DEF Owned, ValuesRight
<1> QED
  BY <1>1, <1>3, <1>4, <1>6, <1>7 DEF Owned

-----------------------------------------------------------------------------
(* Requests to QEMU and their responses on the way.                        *)

Responds(p) == p.response /\ ~p.posted

(* The slot of a request that has no answer yet.                           *)
Expected(r, d, id) ==
  /\ d \in Devs
  /\ \E i \in Slot : r[d][i].used /\ ~r[d][i].valid /\ r[d][i].id = id

(* A request and a response on the way are expected,                       *)
AsksExpected(r, qe) == \A p \in Elems(qe) : Asks(p) => Expected(r, p.dev, p.id)
AnswersExpected(r, sc) ==
  \A p \in Elems(sc) :
    Responds(p) => Expected(r, p.dev, p.id) /\ p.val = Told(p.id)

(* and no two of them by the same slot;                                    *)
OnTheWayOnce(sc, qe) ==
  /\ \A i, j \in DOMAIN qe :
       Asks(qe[i]) /\ Asks(qe[j]) /\ qe[i].id = qe[j].id => i = j
  /\ \A i, j \in DOMAIN sc :
       Responds(sc[i]) /\ Responds(sc[j]) /\ sc[i].id = sc[j].id => i = j
  /\ \A p \in Elems(qe) : \A q \in Elems(sc) :
       Asks(p) /\ Responds(q) => p.id # q.id

(* for whatever waits there is one.                                        *)
Comes(d, id, sc, qe) ==
  \/ \E p \in Elems(qe) : Asks(p) /\ p.dev = d /\ p.id = id
  \/ \E p \in Elems(sc) : Responds(p) /\ p.dev = d /\ p.id = id
OnTheWay(r, sc, qe) ==
  \A d \in Devs : \A i \in Slot :
    r[d][i].used /\ ~r[d][i].valid => Comes(d, r[d][i].id, sc, qe)

Flying(r, sc, qe) ==
  /\ AsksExpected(r, qe) /\ AnswersExpected(r, sc)
  /\ OnTheWayOnce(sc, qe) /\ OnTheWay(r, sc, qe)

Sent(sc, qe) == sc \in Seq(Command) /\ qe \in Seq(FramedCommand)

LEMMA Joined ==
  ASSUME NEW S, NEW s \in Seq(S), NEW u \in Seq(S)
  PROVE  /\ s \o u \in Seq(S) /\ Len(s) \in Nat /\ Len(u) \in Nat
         /\ DOMAIN s = 1 .. Len(s) /\ DOMAIN u = 1 .. Len(u)
         /\ DOMAIN (s \o u) = 1 .. Len(s) + Len(u)
         /\ \A i \in 1 .. Len(s) : (s \o u)[i] = s[i]
         /\ \A i \in DOMAIN (s \o u) : i \notin DOMAIN s =>
              i - Len(s) \in DOMAIN u /\ (s \o u)[i] = u[i - Len(s)]
         /\ \A i \in 1 .. Len(u) : (s \o u)[Len(s) + i] = u[i]
         /\ Elems(s \o u) = Elems(s) \cup Elems(u)
<1> DEFINE t == s \o u
           m == Len(s)
           n == Len(u)
<1>1. /\ t \in Seq(S) /\ m \in Nat /\ n \in Nat /\ Len(t) = m + n
      /\ DOMAIN s = 1 .. m /\ DOMAIN u = 1 .. n
      /\ \A i \in 1 .. m + n : t[i] = IF i <= m THEN s[i] ELSE u[i - m]
  BY ConcatProperties, LenProperties
<1>2. DOMAIN t = 1 .. m + n
  BY <1>1, LenProperties
<1> HIDE DEF t, m, n
<1>3. \A i \in 1 .. m : i \in 1 .. m + n /\ t[i] = s[i]
  BY <1>1
<1>4. \A i \in 1 .. n : m + i \in 1 .. m + n /\ t[m + i] = u[i]
  BY <1>1
<1>5. \A i \in 1 .. m + n : i \notin 1 .. m =>
        i - m \in 1 .. n /\ t[i] = u[i - m]
  BY <1>1
<1>6. Elems(t) = Elems(s) \cup Elems(u)
  <2>1. ASSUME NEW i \in 1 .. m + n PROVE t[i] \in Elems(s) \cup Elems(u)
    BY <1>1, <1>3, <1>5 DEF Elems
  <2>2. Elems(s) \subseteq Elems(t)
    BY <1>1, <1>2, <1>3 DEF Elems
  <2>3. Elems(u) \subseteq Elems(t)
    <3>1. ASSUME NEW i \in 1 .. n PROVE u[i] \in Elems(t)
      <4>1. m + i \in DOMAIN t /\ t[m + i] = u[i]
        BY <1>2, <1>4
      <4> QED
        BY <4>1, Zenon DEF Elems
    <3> QED
      BY <1>1, <3>1 DEF Elems
  <2> QED
    BY <1>2, <2>1, <2>2, <2>3 DEF Elems
<1> QED
  BY <1>1, <1>2, <1>3, <1>4, <1>5, <1>6 DEF t, m, n

(* Packets to QEMU that ask for nothing.                                   *)
LEMMA SendsQuietly ==
  ASSUME NEW r, NEW sc, NEW qe, Sent(sc, qe), Flying(r, sc, qe),
         NEW s \in Seq(FramedCommand), \A p \in Elems(s) : ~Asks(p)
  PROVE  Flying(r, sc, qe \o s)
<1> DEFINE t == qe \o s
<1>1. /\ Elems(t) = Elems(qe) \cup Elems(s)
      /\ \A i \in DOMAIN qe : t[i] = qe[i]
      /\ \A i \in DOMAIN t : i \notin DOMAIN qe => t[i] \in Elems(s)
  <2>1. /\ Elems(t) = Elems(qe) \cup Elems(s) /\ DOMAIN qe = 1 .. Len(qe)
        /\ \A i \in 1 .. Len(qe) : t[i] = qe[i]
        /\ \A i \in DOMAIN t : i \notin DOMAIN qe =>
             i - Len(qe) \in DOMAIN s /\ t[i] = s[i - Len(qe)]
    BY Joined DEF Sent
  <2> QED
    BY <2>1 DEF Elems
<1> HIDE DEF t
<1>2. \A i \in DOMAIN t : Asks(t[i]) => i \in DOMAIN qe /\ Asks(qe[i])
  BY <1>1
<1>3. OnTheWayOnce(sc, t)
  BY <1>1, <1>2 DEF Flying, OnTheWayOnce
<1>4. AsksExpected(r, t) /\ AnswersExpected(r, sc)
  BY <1>1 DEF Flying, AsksExpected
<1>5. OnTheWay(r, sc, t)
  BY <1>1 DEF Flying, OnTheWay, Comes
<1> QED
  BY <1>3, <1>4, <1>5 DEF Flying, t

(* Packets to QEMU of which the last one asks, with a number of its own.   *)
LEMMA SendsAsking ==
  ASSUME NEW r, NEW sc, NEW qe, Sent(sc, qe), Flying(r, sc, qe), Slotful(r),
         NEW s \in Seq(FramedCommand), s # <<>>,
         \A i \in DOMAIN s : Asks(s[i]) <=> i = Len(s),
         NEW t, NEW i, Taken(r, t, s[Len(s)].dev, i, s[Len(s)].id),
         ~r[s[Len(s)].dev][i].valid,
         \A d \in Devs : \A j \in Slot :
           r[d][j].used => r[d][j].id < s[Len(s)].id
  PROVE  Flying(t, sc, qe \o s)
<1> DEFINE u == qe \o s
           e == s[Len(s)]
           m == Len(qe) + Len(s)
<1>1. /\ Elems(u) = Elems(qe) \cup Elems(s)
      /\ \A k \in DOMAIN qe : u[k] = qe[k]
      /\ \A k \in DOMAIN u : k \notin DOMAIN qe =>
           k - Len(qe) \in DOMAIN s /\ u[k] = s[k - Len(qe)]
      /\ Len(qe) \in Nat /\ Len(s) \in Nat
  BY Joined, LenProperties DEF Sent
<1>2. Len(s) \in DOMAIN s
  BY EmptySeq, LenProperties
<1>3. Asks(e) /\ e \in Elems(s)
  BY <1>2 DEF Elems
<1>4. /\ Slotful(t) /\ e.dev \in Devs /\ i \in Slot /\ e.id \in Nat
      /\ ~r[e.dev][i].used /\ t[e.dev][i].used /\ t[e.dev][i].id = e.id
      /\ ~t[e.dev][i].valid
      /\ \A d \in Devs : \A j \in Slot : d # e.dev \/ j # i => t[d][j] = r[d][j]
  BY DEF Taken, Others
<1>5. \A d \in Devs : \A j \in Slot :
        r[d][j].used => r[d][j].id \in Nat /\ r[d][j].id < e.id
  BY DEF Slotful, SlotState
<1>6. \A d, id : Expected(r, d, id) => Expected(t, d, id) /\ id # e.id
  BY <1>4, <1>5 DEF Expected
<1>7. Expected(t, e.dev, e.id)
  BY <1>4 DEF Expected
<1>8. \A p \in Elems(s) : Asks(p) => p = e
  BY DEF Elems
<1> HIDE DEF u, e
<1>9. \A k \in DOMAIN u : Asks(u[k]) =>
        \/ k \in DOMAIN qe /\ Asks(qe[k]) /\ u[k] = qe[k] /\ u[k].id # e.id
        \/ k = m /\ u[k].id = e.id
  <2> SUFFICES ASSUME NEW k \in DOMAIN u, Asks(u[k])
               PROVE  \/ /\ k \in DOMAIN qe /\ Asks(qe[k])
                         /\ u[k] = qe[k] /\ u[k].id # e.id
                      \/ k = m /\ u[k].id = e.id
    OBVIOUS
  <2>1. CASE k \in DOMAIN qe
    <3>1. u[k] = qe[k] /\ qe[k] \in Elems(qe)
      BY <1>1, <2>1 DEF Elems
    <3>2. Expected(r, u[k].dev, u[k].id)
      BY <3>1 DEF Flying, AsksExpected
    <3> QED
      BY <1>6, <2>1, <3>1, <3>2
  <2>2. CASE k \notin DOMAIN qe
    <3>1. k - Len(qe) \in DOMAIN s /\ u[k] = s[k - Len(qe)]
      BY <1>1, <2>2
    <3>2. k - Len(qe) = Len(s)
      BY <3>1
    <3>3. u[k] = e
      BY <3>1, <3>2 DEF e
    <3>4. k \in Int
      BY <3>1, Joined DEF u, Sent
    <3> QED
      BY <1>1, <3>2, <3>3, <3>4
  <2> QED
    BY <2>1, <2>2
<1>10. AsksExpected(t, u)
  BY <1>1, <1>6, <1>7, <1>8 DEF Flying, AsksExpected
<1>11. AnswersExpected(t, sc)
  BY <1>6 DEF Flying, AnswersExpected
<1>12. OnTheWayOnce(sc, u)
  <2>1. \A k, l \in DOMAIN u : Asks(u[k]) /\ Asks(u[l]) /\ u[k].id = u[l].id
          => k = l
    BY <1>9 DEF Flying, OnTheWayOnce
  <2>2. \A p \in Elems(u) : \A q \in Elems(sc) :
          Asks(p) /\ Responds(q) => p.id # q.id
    BY <1>1, <1>6, <1>8 DEF Flying, OnTheWayOnce, AnswersExpected
  <2> QED
    BY <2>1, <2>2 DEF Flying, OnTheWayOnce
<1>13. OnTheWay(t, sc, u)
  <2> SUFFICES ASSUME NEW d \in Devs, NEW j \in Slot,
                      t[d][j].used, ~t[d][j].valid
               PROVE  Comes(d, t[d][j].id, sc, u)
    BY DEF OnTheWay
  <2>1. CASE d = e.dev /\ j = i
    BY <1>1, <1>3, <1>4, <2>1 DEF Comes
  <2>2. CASE d # e.dev \/ j # i
    <3>1. t[d][j] = r[d][j]
      BY <1>4, <2>2
    <3>2. Comes(d, r[d][j].id, sc, qe)
      BY <3>1 DEF Flying, OnTheWay
    <3> QED
      BY <1>1, <3>1, <3>2 DEF Comes
  <2> QED
    BY <2>1, <2>2
<1> QED
  BY <1>10, <1>11, <1>12, <1>13 DEF Flying, u

(* QEMU takes a packet that asks for nothing.                              *)
LEMMA TakesQuietly ==
  ASSUME NEW r, NEW sc, NEW qe, Sent(sc, qe), Flying(r, sc, qe),
         qe # <<>>, ~Asks(Head(qe))
  PROVE  Flying(r, sc, Tail(qe))
<1> DEFINE t == Tail(qe)
           e == Head(qe)
<1>1. /\ e = qe[1] /\ DOMAIN qe = 1 .. Len(qe) /\ Len(qe) \in Nat \ {0}
      /\ DOMAIN t = 1 .. Len(qe) - 1
      /\ \A i \in 1 .. Len(qe) - 1 : t[i] = qe[i + 1]
      /\ Elems(qe) = Elems(t) \cup {e}
  BY Tailed DEF Sent
<1> HIDE DEF t, e
<1>2. \A i \in DOMAIN t : i + 1 \in DOMAIN qe /\ t[i] = qe[i + 1]
  BY <1>1
<1>3. \A i, j \in DOMAIN t : i + 1 = j + 1 => i = j
  BY <1>1
<1>4. OnTheWayOnce(sc, t)
  <2>1. \A i, j \in DOMAIN t :
          Asks(t[i]) /\ Asks(t[j]) /\ t[i].id = t[j].id => i = j
    BY <1>2, <1>3 DEF Flying, OnTheWayOnce
  <2> QED
    BY <1>1, <2>1 DEF Flying, OnTheWayOnce
<1>5. AsksExpected(r, t) /\ AnswersExpected(r, sc)
  BY <1>1 DEF Flying, AsksExpected
<1>6. OnTheWay(r, sc, t)
  BY <1>1 DEF Flying, OnTheWay, Comes, e
<1> QED
  BY <1>4, <1>5, <1>6 DEF Flying, t

(* A packet to the simulation that is no response to a waiting request.    *)
LEMMA QemuSendsQuietly ==
  ASSUME NEW r, NEW sc, NEW qe, Sent(sc, qe), Flying(r, sc, qe),
         NEW e \in Command, ~Responds(e)
  PROVE  Flying(r, Append(sc, e), qe)
<1> DEFINE t == Append(sc, e)
<1>1. /\ Elems(t) = Elems(sc) \cup {e}
      /\ DOMAIN sc = 1 .. Len(sc)
      /\ DOMAIN t = (1 .. Len(sc)) \cup {Len(sc) + 1}
      /\ \A i \in 1 .. Len(sc) : t[i] = sc[i]
      /\ t[Len(sc) + 1] = e
  BY Appended DEF Sent
<1> HIDE DEF t
<1>2. \A i \in DOMAIN t : Responds(t[i]) => i \in DOMAIN sc /\ t[i] = sc[i]
  BY <1>1
<1>3. OnTheWayOnce(t, qe)
  BY <1>1, <1>2 DEF Flying, OnTheWayOnce
<1>4. AsksExpected(r, qe) /\ AnswersExpected(r, t)
  BY <1>1 DEF Flying, AnswersExpected
<1>5. OnTheWay(r, t, qe)
  BY <1>1 DEF Flying, OnTheWay, Comes
<1> QED
  BY <1>3, <1>4, <1>5 DEF Flying, t

(* QEMU answers a request.                                                 *)
LEMMA QemuResponds ==
  ASSUME NEW r, NEW sc, NEW qe, Sent(sc, qe), Flying(r, sc, qe),
         qe # <<>>, Asks(Head(qe)),
         NEW e \in Command, Responds(e), e.id = Head(qe).id,
         e.dev = Head(qe).dev, e.val = Told(e.id)
  PROVE  Flying(r, Append(sc, e), Tail(qe))
<1> DEFINE t == Tail(qe)
           h == Head(qe)
           u == Append(sc, e)
<1>1. /\ h = qe[1] /\ DOMAIN qe = 1 .. Len(qe) /\ Len(qe) \in Nat \ {0}
      /\ DOMAIN t = 1 .. Len(qe) - 1
      /\ \A i \in 1 .. Len(qe) - 1 : t[i] = qe[i + 1]
      /\ Elems(qe) = Elems(t) \cup {h}
  BY Tailed DEF Sent
<1>2. /\ Elems(u) = Elems(sc) \cup {e}
      /\ DOMAIN sc = 1 .. Len(sc)
      /\ DOMAIN u = (1 .. Len(sc)) \cup {Len(sc) + 1}
      /\ \A i \in 1 .. Len(sc) : u[i] = sc[i]
      /\ u[Len(sc) + 1] = e
  BY Appended DEF Sent
<1>3. Asks(h) /\ e.id = h.id /\ e.dev = h.dev
  OBVIOUS
<1> HIDE DEF t, h, u
<1>4. \A i \in DOMAIN t : i + 1 \in DOMAIN qe /\ t[i] = qe[i + 1] /\ i + 1 # 1
  BY <1>1
<1>5. \A i, j \in DOMAIN t : i + 1 = j + 1 => i = j
  BY <1>1
<1>6. 1 \in DOMAIN qe
  BY <1>1
<1>7. \A p \in Elems(t) : Asks(p) => p.id # h.id
  <2> SUFFICES ASSUME NEW i \in DOMAIN t, Asks(t[i]) PROVE t[i].id # h.id
    BY DEF Elems
  <2> QED
    BY <1>1, <1>3, <1>4, <1>6 DEF Flying, OnTheWayOnce
<1>8. \A q \in Elems(sc) : Responds(q) => q.id # h.id
  BY <1>1, <1>3 DEF Flying, OnTheWayOnce
<1>9. OnTheWayOnce(u, t)
  <2>1. \A i, j \in DOMAIN t :
          Asks(t[i]) /\ Asks(t[j]) /\ t[i].id = t[j].id => i = j
    BY <1>4, <1>5 DEF Flying, OnTheWayOnce
  <2>2. \A i, j \in DOMAIN u :
          Responds(u[i]) /\ Responds(u[j]) /\ u[i].id = u[j].id => i = j
    <3>1. \A i \in DOMAIN sc : Responds(sc[i]) => sc[i].id # e.id
      BY <1>3, <1>8 DEF Elems
    <3>2. \A i \in DOMAIN u :
            \/ i \in DOMAIN sc /\ u[i] = sc[i]
            \/ i = Len(sc) + 1 /\ u[i] = e
      BY <1>2
    <3> QED
      BY <3>1, <3>2 DEF Flying, OnTheWayOnce
  <2>3. \A p \in Elems(t) : \A q \in Elems(u) :
          Asks(p) /\ Responds(q) => p.id # q.id
    BY <1>1, <1>2, <1>3, <1>7 DEF Flying, OnTheWayOnce
  <2> QED
    BY <2>1, <2>2, <2>3 DEF OnTheWayOnce
<1>10. AsksExpected(r, t)
  BY <1>1 DEF Flying, AsksExpected
<1>11. AnswersExpected(r, u)
  BY <1>1, <1>2, <1>3 DEF Flying, AsksExpected, AnswersExpected
<1>12. OnTheWay(r, u, t)
  BY <1>1, <1>2, <1>3 DEF Flying, OnTheWay, Comes
<1> QED
  BY <1>9, <1>10, <1>11, <1>12 DEF Flying, t, u

(* The adaptor takes a packet that is no response to a waiting request.    *)
LEMMA ReceivesQuietly ==
  ASSUME NEW r, NEW sc, NEW qe, Sent(sc, qe), Flying(r, sc, qe),
         sc # <<>>, ~Responds(Head(sc))
  PROVE  Flying(r, Tail(sc), qe)
<1> DEFINE t == Tail(sc)
           e == Head(sc)
<1>1. /\ e = sc[1] /\ DOMAIN sc = 1 .. Len(sc) /\ Len(sc) \in Nat \ {0}
      /\ DOMAIN t = 1 .. Len(sc) - 1
      /\ \A i \in 1 .. Len(sc) - 1 : t[i] = sc[i + 1]
      /\ Elems(sc) = Elems(t) \cup {e}
  BY Tailed DEF Sent
<1> HIDE DEF t, e
<1>2. \A i \in DOMAIN t : i + 1 \in DOMAIN sc /\ t[i] = sc[i + 1]
  BY <1>1
<1>3. \A i, j \in DOMAIN t : i + 1 = j + 1 => i = j
  BY <1>1
<1>4. OnTheWayOnce(t, qe)
  <2>1. \A i, j \in DOMAIN t :
          Responds(t[i]) /\ Responds(t[j]) /\ t[i].id = t[j].id => i = j
    BY <1>2, <1>3 DEF Flying, OnTheWayOnce
  <2> QED
    BY <1>1, <2>1 DEF Flying, OnTheWayOnce
<1>5. AsksExpected(r, qe) /\ AnswersExpected(r, t)
  BY <1>1 DEF Flying, AnswersExpected
<1>6. OnTheWay(r, t, qe)
  BY <1>1 DEF Flying, OnTheWay, Comes, e
<1> QED
  BY <1>4, <1>5, <1>6 DEF Flying, t

(* The adaptor puts a response in its slot.                                *)
LEMMA ResponseFills ==
  ASSUME NEW r, NEW sc, NEW qe, Sent(sc, qe), Flying(r, sc, qe),
         Slotful(r), OneEach(r), sc # <<>>, Responds(Head(sc)),
         NEW t, NEW i, Filled(r, t, Head(sc).dev, i, Head(sc).val),
         r[Head(sc).dev][i].id = Head(sc).id
  PROVE  Flying(t, Tail(sc), qe)
<1> DEFINE u == Tail(sc)
           h == Head(sc)
<1>1. /\ h = sc[1] /\ DOMAIN sc = 1 .. Len(sc) /\ Len(sc) \in Nat \ {0}
      /\ DOMAIN u = 1 .. Len(sc) - 1
      /\ \A j \in 1 .. Len(sc) - 1 : u[j] = sc[j + 1]
      /\ Elems(sc) = Elems(u) \cup {h}
  BY Tailed DEF Sent
<1>2. /\ Responds(h) /\ h.dev \in Devs /\ i \in Slot /\ r[h.dev][i].id = h.id
      /\ t[h.dev][i].valid
      /\ r[h.dev][i].used
      /\ \A d \in Devs : \A j \in Slot : d # h.dev \/ j # i => t[d][j] = r[d][j]
  BY DEF Filled, Others
<1> HIDE DEF u, h
<1>3. \A j \in DOMAIN u : j + 1 \in DOMAIN sc /\ u[j] = sc[j + 1] /\ j + 1 # 1
  BY <1>1
<1>4. \A j, k \in DOMAIN u : j + 1 = k + 1 => j = k
  BY <1>1
<1>5. 1 \in DOMAIN sc
  BY <1>1
<1>6. \A p \in Elems(u) : Responds(p) => p.id # h.id
  <2> SUFFICES ASSUME NEW j \in DOMAIN u, Responds(u[j]) PROVE u[j].id # h.id
    BY DEF Elems
  <2> QED
    BY <1>1, <1>2, <1>3, <1>5 DEF Flying, OnTheWayOnce
<1>7. \A p \in Elems(qe) : Asks(p) => p.id # h.id
  BY <1>1, <1>2 DEF Flying, OnTheWayOnce
<1>8. \A d, id : Expected(r, d, id) /\ id # h.id => Expected(t, d, id)
  BY <1>2 DEF Expected
<1>9. OnTheWayOnce(u, qe)
  <2>1. \A j, k \in DOMAIN u :
          Responds(u[j]) /\ Responds(u[k]) /\ u[j].id = u[k].id => j = k
    BY <1>3, <1>4 DEF Flying, OnTheWayOnce
  <2> QED
    BY <1>1, <2>1 DEF Flying, OnTheWayOnce
<1>10. AsksExpected(t, qe)
  BY <1>7, <1>8 DEF Flying, AsksExpected
<1>11. AnswersExpected(t, u)
  BY <1>1, <1>6, <1>8 DEF Flying, AnswersExpected
<1>12. OnTheWay(t, u, qe)
  <2> SUFFICES ASSUME NEW d \in Devs, NEW j \in Slot,
                      t[d][j].used, ~t[d][j].valid
               PROVE  Comes(d, t[d][j].id, u, qe)
    BY DEF OnTheWay
  <2>1. d # h.dev \/ j # i
    BY <1>2
  <2>2. t[d][j] = r[d][j]
    BY <1>2, <2>1
  <2>3. Comes(d, r[d][j].id, sc, qe)
    BY <2>2 DEF Flying, OnTheWay
  <2>4. ~(h.dev = d /\ h.id = r[d][j].id)
    BY <1>2, <2>1, <2>2 DEF OneEach
  <2> QED
    BY <1>1, <2>2, <2>3, <2>4 DEF Comes
<1> QED
  BY <1>9, <1>10, <1>11, <1>12 DEF Flying, u

(* A slot with its answer is given back.                                   *)
LEMMA FreedFlying ==
  ASSUME NEW r, NEW sc, NEW qe, Flying(r, sc, qe),
         NEW t, NEW d, NEW i, Freed(r, t, d, i), r[d][i].valid
  PROVE  Flying(t, sc, qe)
<1>1. /\ d \in Devs /\ i \in Slot /\ ~t[d][i].used
      /\ \A e \in Devs : \A j \in Slot : e # d \/ j # i => t[e][j] = r[e][j]
  BY DEF Freed, Others
<1>2. \A e, id : Expected(r, e, id) => Expected(t, e, id)
  BY <1>1 DEF Expected
<1>3. OnTheWay(t, sc, qe)
  BY <1>1 DEF Flying, OnTheWay
<1> QED
  BY <1>2, <1>3 DEF Flying, AsksExpected, AnswersExpected

-----------------------------------------------------------------------------
(* Every step keeps the types, the lengths and the stack.                  *)

LEMMA SlotChanges ==
  ASSUME NEW x \in SlotState, NEW id \in Nat, NEW val \in Int
  PROVE  /\ [x EXCEPT !.used = TRUE, !.id = id] \in SlotState
         /\ [x EXCEPT !.used = FALSE, !.valid = FALSE] \in SlotState
         /\ [x EXCEPT !.valid = TRUE, !.val = val] \in SlotState
BY DEF SlotState

LEMMA ReserveType ==
  ASSUME Slotful(resp), NEW d \in Devs, NEW id \in Nat
  PROVE  Slotful(Reserve(d, id))
<1> DEFINE i == FreeSlot(resp[d])
           s == [resp[d][i] EXCEPT !.used = TRUE, !.id = id]
<1>1. Reserve(d, id) = [resp EXCEPT ![d][i] = s]
  BY DEF Reserve
<1> HIDE DEF i
<1>2. i \in Slot => s \in SlotState
  <2>1. i \in Slot => resp[d][i] \in SlotState
    BY DEF Slotful
  <2>2. 0 \in Int
    OBVIOUS
  <2> QED
    BY <2>1, <2>2, SlotChanges
<1> HIDE DEF s
<1> QED
  BY <1>1, <1>2 DEF Slotful

LEMMA DoneType ==
  ASSUME Slotful(resp), NEW d \in Devs, NEW id
  PROVE  Slotful(response_done(d, id))
<1> DEFINE L == response_lookup(d, id)
           s(i) == [resp[d][i] EXCEPT !.used = FALSE, !.valid = FALSE]
           u == [i \in Slot |-> IF i \in L THEN s(i) ELSE resp[d][i]]
<1>1. response_done(d, id) = [resp EXCEPT ![d] = u]
  BY DEF response_done
<1>2. \A i \in Slot : s(i) \in SlotState
  <2>1. \A i \in Slot : resp[d][i] \in SlotState
    BY DEF Slotful
  <2>2. 0 \in Nat /\ 0 \in Int
    OBVIOUS
  <2> QED
    BY <2>1, <2>2, SlotChanges
<1> HIDE DEF s, L
<1>3. u \in [Slot -> SlotState]
  BY <1>2 DEF Slotful
<1> HIDE DEF u
<1> QED
  BY <1>1, <1>3 DEF Slotful

LEMMA AnsweredType ==
  ASSUME Slotful(resp), NEW p, p.val \in Int
  PROVE  Slotful(Answered(p))
<1> DEFINE L == response_lookup(p.dev, p.id)
           s(i) == [resp[p.dev][i] EXCEPT !.valid = TRUE, !.val = p.val]
           u == [i \in Slot |-> IF i \in L THEN s(i) ELSE resp[p.dev][i]]
<1>1. Answered(p) = [resp EXCEPT ![p.dev] = u]
  BY DEF Answered
<1>2. p.dev \in Devs => \A i \in Slot : s(i) \in SlotState
  <2>1. p.dev \in Devs => \A i \in Slot : resp[p.dev][i] \in SlotState
    BY DEF Slotful
  <2>2. 0 \in Nat
    OBVIOUS
  <2> QED
    BY <2>1, <2>2, SlotChanges
<1> HIDE DEF s, L
<1>3. p.dev \in Devs => u \in [Slot -> SlotState]
  BY <1>2 DEF Slotful
<1> HIDE DEF u
<1> QED
  BY <1>1, <1>3 DEF Slotful

LEMMA QemuGrows ==
  ASSUME TypeOK, FramesWhole, NEW e \in FramedCommand,
         e.wrote = hdrSize + e.len, toQemu' = Append(toQemu, e)
  PROVE  toQemu' \in Seq(FramedCommand) /\ FramesWhole'
<1>1. /\ toQemu' \in Seq(FramedCommand)
      /\ DOMAIN toQemu' = DOMAIN toQemu \cup {Len(toQemu) + 1}
      /\ \A i \in DOMAIN toQemu : toQemu'[i] = toQemu[i]
      /\ toQemu'[Len(toQemu) + 1] = e
  BY Appended DEF TypeOK
<1> QED
  BY <1>1 DEF FramesWhole, hdrSize

LEMMA TypedQemuSends ==
  ASSUME PortConstants, Typed, qemu_sends
  PROVE  Typed'
<1> DEFINE p == program[sent + 1]
           e == Packet(p.cmd, sent + 1, "qemu", FALSE, p.posted, p.addr, p.val)
<1>1. /\ sent < Len(program) /\ toSc' = Append(toSc, e) /\ sent' = sent + 1
      /\ UNCHANGED <<scenario, answers, seen, toQemu, mutex, rp_pkt_event,
                     phase, frames, caps, rp_pkt_id, resp, master, accesses,
                     wires, mem, out>>
  BY DEF qemu_sends
<1>2. sent' \in 0 .. Len(program) /\ sent + 1 \in 1 .. Len(program)
      /\ sent + 1 \in Nat
  BY <1>1, ScenarioType DEF Typed, TypeOK
<1>3. e \in Command
  <2>1. /\ p.cmd \in Cmds /\ p.posted \in BOOLEAN /\ p.addr \in Int
        /\ p.val \in Int
    BY <1>2, ScenarioType DEF Typed, TypeOK
  <2> HIDE DEF p
  <2> QED
    BY <1>2, <2>1, PacketType
<1> HIDE DEF e
<1>4. toSc' \in Seq(Command)
  BY <1>1, <1>3, Appended DEF Typed, TypeOK
<1>5. TypeOK'
  BY <1>1, <1>2, <1>4 DEF Typed, TypeOK, wires, program
<1>6. FramesWhole' /\ Stacked'
  BY <1>1 DEF Typed, FramesWhole, Stacked, Waits, Top
<1> QED
  BY <1>5, <1>6 DEF Typed

LEMMA TypedQemuReceives ==
  ASSUME PortConstants, Typed, qemu_receives
  PROVE  Typed'
<1> DEFINE p == Head(toQemu)
           a == [id |-> p.id, val |-> p.val]
           e == Answer(p, Told(p.id))
<1>1. /\ toQemu # <<>>
      /\ answers' = Append(answers, a) \/ answers' = answers
      /\ seen' = [seen EXCEPT ![p.addr] = p.val] \/ seen' = seen
      /\ toSc' = Append(toSc, e) \/ toSc' = toSc
      /\ toQemu' = Tail(toQemu)
      /\ UNCHANGED <<scenario, sent, mutex, rp_pkt_event, phase, frames, caps,
                     rp_pkt_id, resp, master, accesses, wires, mem, out>>
  BY DEF qemu_receives
<1>2. /\ p \in FramedCommand /\ Tail(toQemu) \in Seq(FramedCommand)
      /\ DOMAIN Tail(toQemu) = 1 .. Len(toQemu) - 1
      /\ DOMAIN toQemu = 1 .. Len(toQemu) /\ Len(toQemu) \in Nat \ {0}
      /\ \A i \in 1 .. Len(toQemu) - 1 : Tail(toQemu)[i] = toQemu[i + 1]
  BY <1>1, Tailed DEF Typed, TypeOK
<1>3. e \in Command /\ a \in [id : Nat, val : Int] /\ p.val \in Int
  <2>1. p.id \in Nat /\ p.val \in Int
    BY <1>2 DEF FramedCommand
  <2>2. Told(p.id) \in Int
    BY <2>1 DEF Told
  <2> HIDE DEF p
  <2> QED
    BY <1>2, <2>1, <2>2, AnswerType
<1> HIDE DEF e, a, p
<1>4. toSc' \in Seq(Command)
  <2>1. toSc \in Seq(Command)
    BY DEF Typed, TypeOK
  <2>2. Append(toSc, e) \in Seq(Command)
    BY <1>3, <2>1, Appended
  <2> QED
    BY <1>1, <2>1, <2>2
<1>5. answers' \in Seq([id : Nat, val : Int])
  <2>1. answers \in Seq([id : Nat, val : Int])
    BY DEF Typed, TypeOK
  <2>2. Append(answers, a) \in Seq([id : Nat, val : Int])
    BY <1>3, <2>1, Appended
  <2> QED
    BY <1>1, <2>1, <2>2
<1>6. seen' \in [Wires -> Int]
  BY <1>1, <1>3 DEF Typed, TypeOK
<1>7. TypeOK'
  BY <1>1, <1>2, <1>4, <1>5, <1>6 DEF Typed, TypeOK, wires, program
<1>8. FramesWhole'
  <2>1. \A i \in 1 .. Len(toQemu) - 1 : i + 1 \in DOMAIN toQemu
    BY <1>2
  <2> QED
    BY <1>1, <1>2, <2>1 DEF Typed, FramesWhole, hdrSize
<1>9. Stacked'
  BY <1>1 DEF Typed, Stacked, Waits, Top
<1> QED
  BY <1>7, <1>8, <1>9 DEF Typed

LEMMA TypedThread ==
  ASSUME Typed, thread_locks \/ thread_notifies \/ reads \/ resumes
  PROVE  Typed'
<1>1. TypeOK'
  <2>1. CASE thread_locks
    BY <2>1 DEF thread_locks, Typed, TypeOK, wires, qemu, program
  <2>2. CASE thread_notifies
    BY <2>2 DEF thread_notifies, Typed, TypeOK, wires, qemu, program
  <2>3. CASE reads
    BY <2>3 DEF reads, Typed, TypeOK, wires, qemu, program
  <2>4. CASE resumes
    BY <2>4 DEF resumes, Typed, TypeOK, wires, qemu, program
  <2> QED
    BY <2>1, <2>2, <2>3, <2>4
<1>2. toQemu' = toQemu /\ frames' = frames
  BY DEF thread_locks, thread_notifies, reads, resumes, qemu
<1>3. \/ phase' = phase
      \/ /\ phase \notin {"access", "delta"}
         /\ phase' \notin {"access", "delta"} /\ phase' # "delta"
  BY DEF thread_locks, thread_notifies, reads, resumes, qemu
<1>4. Stacked'
  BY <1>2, <1>3 DEF Typed, Stacked, Waits, Top
<1> QED
  BY <1>1, <1>2, <1>4 DEF Typed, FramesWhole

LEMMA TypedHello ==
  ASSUME Typed, say_hello
  PROVE  Typed'
<1> DEFINE q == Packet("hello", rp_pkt_id, "mem", FALSE, FALSE, 0, 0)
           e == rp_encode_other(q, 20)
<1>1. /\ phase = "reset" /\ phase' = "listen"
      /\ toQemu' = Append(toQemu, e) /\ rp_pkt_id' = rp_pkt_id + 1
      /\ UNCHANGED <<scenario, qemu, toSc, mutex, rp_pkt_event, frames, caps,
                     resp, master, accesses, wires, mem, out>>
  BY DEF say_hello
<1>2. q \in Command
  <2>1. rp_pkt_id \in Nat
    BY DEF Typed, TypeOK
  <2>2. "hello" \in Cmds /\ "mem" \in Devs \cup {"qemu"} /\ FALSE \in BOOLEAN
        /\ 0 \in Int
    BY DEF Cmds, Devs
  <2> QED
    BY <2>1, <2>2, PacketType
<1> HIDE DEF q
<1>3. e \in FramedCommand /\ e.wrote = hdrSize + e.len
  BY <1>2, OtherFramed
<1> HIDE DEF e
<1>4. toQemu' \in Seq(FramedCommand) /\ FramesWhole'
  BY <1>1, <1>3, QemuGrows DEF Typed
<1>5. TypeOK'
  BY <1>1, <1>4 DEF Typed, TypeOK, wires, qemu, program
<1>6. Stacked'
  BY <1>1 DEF Typed, Stacked, Waits, Top
<1> QED
  BY <1>4, <1>5, <1>6 DEF Typed

(* rp_process returns: it listens again, or the request on top has its     *)
(* answer and gives its slot back.                                         *)
Listens(r) == phase' = "listen" /\ frames' = frames /\ resp' = r
Proceeds(r, i) ==
  /\ frames # <<>> /\ i \in Slot
  /\ r["mem"][i].used /\ r["mem"][i].valid /\ r["mem"][i].id = Top.slot
  /\ phase' = "delta"
  /\ frames' = Append(Pop, [Top EXCEPT !.slot = -1, !.val = r["mem"][i].val])
  /\ Freed(r, resp', "mem", i)

LEMMA ReturnsCases ==
  ASSUME NEW r, Slotful(r), Returns(r)
  PROVE  Listens(r) \/ \E i \in Slot : Proceeds(r, i)
<1> DEFINE mine == {i \in Slot : /\ r["mem"][i].used /\ r["mem"][i].valid
                                 /\ frames # <<>> /\ r["mem"][i].id = Top.slot}
<1>1. CASE mine = {}
  BY <1>1 DEF Returns, Listens
<1>2. CASE mine # {}
  <2> DEFINE i == CHOOSE i \in mine : TRUE
             s == [r["mem"][i] EXCEPT !.used = FALSE, !.valid = FALSE]
  <2>1. i \in mine
    BY <1>2
  <2>2. /\ phase' = "delta"
        /\ frames' = Append(Pop, [Top EXCEPT !.slot = -1,
                                             !.val = r["mem"][i].val])
        /\ resp' = [r EXCEPT !["mem"][i] = s]
    BY <1>2 DEF Returns
  <2> HIDE DEF i
  <2>3. /\ i \in Slot /\ r["mem"][i].used /\ r["mem"][i].valid
        /\ frames # <<>> /\ r["mem"][i].id = Top.slot
    BY <2>1
  <2>4. "mem" \in Devs
    BY DEF Devs
  <2>5. s \in SlotState /\ ~s.used /\ ~s.valid
    <3>1. r["mem"][i] \in SlotState
      BY <2>3, <2>4 DEF Slotful
    <3> QED
      BY <3>1 DEF SlotState
  <2> HIDE DEF s, mine
  <2>6. /\ Slotful(resp') /\ resp'["mem"][i] = s
        /\ \A e \in Devs : \A j \in Slot :
             e # "mem" \/ j # i => resp'[e][j] = r[e][j]
    BY <2>2, <2>3, <2>4, <2>5 DEF Slotful
  <2>7. Freed(r, resp', "mem", i)
    BY <2>3, <2>4, <2>5, <2>6 DEF Freed, Others
  <2> QED
    BY <2>2, <2>3, <2>7 DEF Proceeds
<1> QED
  BY <1>1, <1>2

LEMMA ReturnsTyped ==
  ASSUME TypeOK, Stacked, phase \notin {"access", "delta"},
         NEW r, Slotful(r), Returns(r)
  PROVE  /\ frames' \in Seq(Frame) /\ Slotful(resp')
         /\ phase' \in {"listen", "delta"} /\ Stacked'
<1>1. CASE Listens(r)
  BY <1>1 DEF Listens, TypeOK, Stacked, Waits
<1>2. CASE \E i \in Slot : Proceeds(r, i)
  <2>1. PICK i \in Slot : Proceeds(r, i)
    BY <1>2
  <2> DEFINE v == r["mem"][i].val
             F == [Top EXCEPT !.slot = -1, !.val = v]
  <2>2. v \in Int
    <3>1. r["mem"][i] \in SlotState
      BY DEF Slotful, Devs
    <3> QED
      BY <3>1 DEF SlotState
  <2>3. /\ frames # <<>> /\ phase' = "delta" /\ Slotful(resp')
        /\ frames' = Append(Pop, F)
    BY <2>1 DEF Proceeds, Freed
  <2> HIDE DEF v
  <2>4. F \in Frame /\ F.pkt = Top.pkt /\ F.slot = -1
    <3>1. -1 \in Int /\ frames # <<>>
      BY <2>3
    <3> HIDE DEF v
    <3> QED
      BY <2>2, <3>1, Typing
  <2> HIDE DEF F
  <2>5. /\ Len(frames) \in Nat \ {0} /\ frames' \in Seq(Frame)
        /\ Len(frames') = Len(frames)
        /\ DOMAIN frames' = 1 .. Len(frames) /\ DOMAIN frames = 1 .. Len(frames)
        /\ \A k \in 1 .. Len(frames) :
             frames'[k] = IF k = Len(frames) THEN F ELSE frames[k]
        /\ Top = frames[Len(frames)]
    BY <2>3, <2>4, Stack
  <2>6. Len(frames) \in DOMAIN frames
    <3>1. Len(frames) \in Nat \ {0} /\ DOMAIN frames = 1 .. Len(frames)
      BY <2>5
    <3> QED
      BY ONLY <3>1
  <2>7. Waits(Len(frames))
    BY <2>6 DEF Stacked
  <2>8. Top'.pkt = Top.pkt /\ frames' # <<>>
    BY <2>4, <2>5, <2>6, EmptySeq DEF Top
  <2>9. \A k \in DOMAIN frames' : frames'[k].pkt = frames[k].pkt
    BY <2>4, <2>5
  <2>10. \A k \in DOMAIN frames' : Waits(k)' <=> k < Len(frames')
    <3> TAKE k \in DOMAIN frames'
    <3>1. k \in 1 .. Len(frames) /\ Len(frames) \in Nat
      BY <2>5
    <3>2. frames'[k] = IF k = Len(frames) THEN F ELSE frames[k]
      BY <2>5, <3>1
    <3>3. k = Len(frames) \/ k < Len(frames)
      BY ONLY <3>1
    <3>4. k < Len(frames) => Waits(k)
      BY <2>5, <3>1 DEF Stacked
    <3>5. k < Len(frames) => k # Len(frames)
      BY ONLY <3>1
    <3> QED
      BY <2>4, <2>5, <3>2, <3>3, <3>4, <3>5 DEF Waits
  <2>11. Stacked'
    BY <2>3, <2>5, <2>6, <2>7, <2>8, <2>9, <2>10 DEF Stacked
  <2> QED
    BY <2>3, <2>5, <2>11
<1> QED
  BY <1>1, <1>2, ReturnsCases

LEMMA TypedReceives ==
  ASSUME PortConstants, Typed, receives
  PROVE  Typed'
<1> DEFINE p == Head(toSc)
<1>1. /\ phase = "read" /\ toSc # <<>> /\ toSc' = Tail(toSc)
      /\ UNCHANGED <<scenario, qemu, mutex, rp_pkt_event, rp_pkt_id, master,
                     accesses, wires, mem, out>>
  BY DEF receives
<1>2. p \in Command /\ toSc' \in Seq(Command)
  BY <1>1, Tailed DEF Typed, TypeOK
<1>3. \/ Returns(resp) /\ UNCHANGED <<toQemu, caps>>
      \/ Returns(Answered(p)) /\ UNCHANGED <<toQemu, caps>>
      \/ caps' = scenario.caps /\ phase' = "sync"
           /\ UNCHANGED <<toQemu, frames, resp>>
      \/ /\ p.cmd = "sync"
         /\ toQemu' = Append(toQemu, rp_encode_other(Answer(p, 0), 8))
         /\ phase' = "sync" /\ UNCHANGED <<caps, frames, resp>>
      \/ /\ ~p.response /\ p.cmd \in {"read", "write", "interrupt"}
         /\ frames' = Append(frames, [pkt |-> p, slot |-> -1, val |-> 0])
         /\ phase' = "access" /\ UNCHANGED <<toQemu, caps, resp>>
  BY DEF receives, Answered
<1>4. Slotful(resp) /\ Slotful(Answered(p))
  <2>1. p.val \in Int
    BY <1>2 DEF Command
  <2> QED
    BY <2>1, AnsweredType DEF Typed, TypeOK, Slotful
<1> HIDE DEF p
<1>5. SUFFICES /\ toQemu' \in Seq(FramedCommand) /\ FramesWhole'
               /\ frames' \in Seq(Frame) /\ Slotful(resp') /\ Stacked'
               /\ phase' \in {"listen", "delta", "sync", "access"}
               /\ caps' \in {{}, scenario.caps}
  <2>1. TypeOK'
    BY <1>1, <1>2, <1>5 DEF Typed, TypeOK, wires, qemu, program, Slotful
  <2> QED
    BY <1>5, <2>1 DEF Typed
<1>6. CASE Returns(resp) \/ Returns(Answered(p))
  <2>1. toQemu' = toQemu /\ caps' = caps
    BY <1>1, <1>3, <1>6 DEF Returns
  <2>2. /\ frames' \in Seq(Frame) /\ Slotful(resp')
        /\ phase' \in {"listen", "delta"} /\ Stacked'
    BY <1>1, <1>4, <1>6, ReturnsTyped DEF Typed
  <2> QED
    BY <2>1, <2>2 DEF Typed, TypeOK, FramesWhole
<1>7. CASE caps' = scenario.caps /\ phase' = "sync"
             /\ UNCHANGED <<toQemu, frames, resp>>
  <2>1. Stacked'
    BY <1>1, <1>7 DEF Typed, Stacked, Waits
  <2> QED
    BY <1>4, <1>7, <2>1 DEF Typed, TypeOK, FramesWhole
<1>8. CASE /\ p.cmd = "sync"
           /\ toQemu' = Append(toQemu, rp_encode_other(Answer(p, 0), 8))
           /\ phase' = "sync" /\ UNCHANGED <<caps, frames, resp>>
  <2> DEFINE a == Answer(p, 0)
             e == rp_encode_other(a, 8)
  <2>1. a \in Command
    BY <1>2, AnswerType
  <2> HIDE DEF a
  <2>2. e \in FramedCommand /\ e.wrote = hdrSize + e.len
    BY <2>1, OtherFramed
  <2>3. toQemu' = Append(toQemu, e)
    BY <1>8 DEF a
  <2> HIDE DEF e
  <2>4. toQemu' \in Seq(FramedCommand) /\ FramesWhole'
    BY <2>2, <2>3, QemuGrows DEF Typed
  <2>5. Stacked'
    BY <1>1, <1>8 DEF Typed, Stacked, Waits
  <2> QED
    BY <1>4, <1>8, <2>4, <2>5 DEF Typed, TypeOK
<1>9. CASE /\ ~p.response /\ p.cmd \in {"read", "write", "interrupt"}
           /\ frames' = Append(frames, [pkt |-> p, slot |-> -1, val |-> 0])
           /\ phase' = "access" /\ UNCHANGED <<toQemu, caps, resp>>
  <2> DEFINE F == [pkt |-> p, slot |-> -1, val |-> 0]
  <2>1. F \in Frame /\ F.pkt = p /\ F.slot = -1
    BY <1>2 DEF Frame
  <2>2. frames' = Append(frames, F)
    BY <1>9
  <2> HIDE DEF F
  <2>3. /\ frames' \in Seq(Frame) /\ Len(frames) \in Nat
        /\ Len(frames') = Len(frames) + 1
        /\ DOMAIN frames = 1 .. Len(frames)
        /\ DOMAIN frames' = (1 .. Len(frames)) \cup {Len(frames) + 1}
        /\ \A k \in 1 .. Len(frames) : frames'[k] = frames[k]
        /\ frames'[Len(frames) + 1] = F
    BY <2>1, <2>2, Appended DEF Typed, TypeOK
  <2>4. frames' # <<>>
    BY <2>3, EmptySeq
  <2>5. \A k \in DOMAIN frames : frames[k].slot # -1
    BY <1>1 DEF Typed, Stacked, Waits
  <2>6. \A k \in DOMAIN frames' : Waits(k)' <=> k < Len(frames')
    BY <2>1, <2>3, <2>5 DEF Waits
  <2>7. Stacked'
    BY <1>9, <2>1, <2>3, <2>4, <2>6 DEF Typed, Stacked, Waits
  <2> QED
    BY <1>4, <1>9, <2>3, <2>7 DEF Typed, TypeOK, FramesWhole
<1> QED
  BY <1>3, <1>6, <1>7, <1>8, <1>9

LEMMA TopReplaced ==
  ASSUME TypeOK, Stacked, phase = "access", NEW F \in Frame,
         F.pkt = Top.pkt, Top.pkt.cmd \in {"read", "write"},
         frames' = Append(Pop, F),
         \/ phase' = "delta" /\ F.slot = -1
         \/ /\ phase' = "listen" /\ F.slot # -1
            /\ Top.pkt.addr = Hole /\ ~Top.pkt.posted
  PROVE  frames' \in Seq(Frame) /\ Stacked'
<1>1. frames # <<>>
  BY DEF Stacked
<1>2. /\ Len(frames) \in Nat \ {0} /\ frames' \in Seq(Frame)
      /\ Len(frames') = Len(frames)
      /\ DOMAIN frames' = 1 .. Len(frames) /\ DOMAIN frames = 1 .. Len(frames)
      /\ \A k \in 1 .. Len(frames) :
           frames'[k] = IF k = Len(frames) THEN F ELSE frames[k]
      /\ Top = frames[Len(frames)]
  BY <1>1, Stack
<1>3. Len(frames) \in 1 .. Len(frames) /\ Len(frames) \in Nat
  BY <1>2
<1>4. Top'.pkt = Top.pkt /\ frames' # <<>>
  BY <1>2, <1>3, EmptySeq DEF Top
<1>5. \A k \in DOMAIN frames' : frames'[k].pkt = frames[k].pkt
  BY <1>2
<1>6. \A k \in DOMAIN frames' :
        Waits(k)' <=> k < Len(frames') \/ phase' \notin {"access", "delta"}
  <2> TAKE k \in DOMAIN frames'
  <2>1. k \in 1 .. Len(frames)
    BY <1>2
  <2>2. frames'[k] = IF k = Len(frames) THEN F ELSE frames[k]
    BY <1>2, <2>1
  <2>3. k = Len(frames) \/ k < Len(frames)
    BY ONLY <1>3, <2>1
  <2>4. k < Len(frames) => Waits(k) /\ k # Len(frames)
    <3>1. k < Len(frames) => k # Len(frames)
      BY ONLY <1>3, <2>1
    <3> QED
      BY <1>2, <2>1, <3>1 DEF Stacked
  <2>5. ~(Len(frames) < Len(frames))
    BY ONLY <1>3
  <2> QED
    BY <1>2, <2>2, <2>3, <2>4, <2>5 DEF Waits
<1>7. \A k \in DOMAIN frames' : Waits(k)' =>
        /\ frames'[k].pkt.cmd \in {"read", "write"}
        /\ frames'[k].pkt.addr = Hole /\ ~frames'[k].pkt.posted
  <2> SUFFICES ASSUME NEW k \in DOMAIN frames', Waits(k)'
               PROVE  /\ frames'[k].pkt.cmd \in {"read", "write"}
                      /\ frames'[k].pkt.addr = Hole /\ ~frames'[k].pkt.posted
    OBVIOUS
  <2>1. k \in 1 .. Len(frames)
    BY <1>2
  <2>2. frames'[k] = IF k = Len(frames) THEN F ELSE frames[k]
    BY <1>2, <2>1
  <2>3. CASE k = Len(frames)
    BY <1>2, <2>2, <2>3 DEF Waits
  <2>4. CASE k # Len(frames)
    BY <1>2, <2>1, <2>2, <2>4 DEF Waits, Stacked
  <2> QED
    BY <2>3, <2>4
<1>8. \A k \in DOMAIN frames' : ~frames'[k].pkt.response
        /\ frames'[k].pkt.cmd \in {"read", "write", "interrupt"}
  BY <1>2, <1>5 DEF Stacked
<1>9. Stacked'
  BY <1>4, <1>6, <1>7, <1>8 DEF Stacked
<1> QED
  BY <1>2, <1>9

LEMMA TopGone ==
  ASSUME TypeOK, Stacked, phase \in {"access", "delta"}, frames' = Pop,
         phase' = "sync"
  PROVE  frames' \in Seq(Frame) /\ Stacked'
<1>1. frames # <<>>
  BY DEF Stacked
<1>2. /\ Len(frames) \in Nat \ {0} /\ frames' \in Seq(Frame)
      /\ DOMAIN frames' = 1 .. Len(frames) - 1
      /\ DOMAIN frames = 1 .. Len(frames)
      /\ \A k \in 1 .. Len(frames) - 1 : frames'[k] = frames[k]
  BY <1>1, Stack
<1>3. \A k \in DOMAIN frames' : k \in DOMAIN frames /\ k < Len(frames)
  BY <1>2
<1>4. Stacked'
  BY <1>2, <1>3 DEF Stacked, Waits
<1> QED
  BY <1>2, <1>4

LEMMA TypedAccess ==
  ASSUME PortConstants, Typed, access
  PROVE  Typed'
<1> DEFINE F == [Top EXCEPT !.val = mem]
<1>1. /\ phase = "access" /\ Top.pkt.cmd \in {"read", "write"}
      /\ phase' = "delta" /\ frames' = Append(Pop, F)
      /\ mem' = IF Top.pkt.cmd = "write" THEN Top.pkt.val ELSE mem
      /\ UNCHANGED <<scenario, qemu, toSc, toQemu, mutex, rp_pkt_event, caps,
                     rp_pkt_id, resp, master, accesses, wires, out>>
  BY DEF access
<1>2. frames # <<>> /\ mem \in Int
  BY <1>1 DEF Typed, Stacked, TypeOK
<1>3. /\ F \in Frame /\ F.pkt = Top.pkt /\ F.slot = Top.slot
      /\ Top.pkt \in Command
  BY <1>2, Typing DEF Typed
<1>4. F.slot = -1
  <2>1. /\ Len(frames) \in Nat \ {0} /\ DOMAIN frames = 1 .. Len(frames)
        /\ Top = frames[Len(frames)]
    BY <1>2, Stack DEF Typed
  <2>2. Len(frames) \in DOMAIN frames /\ ~(Len(frames) < Len(frames))
    BY ONLY <2>1
  <2> QED
    BY <1>1, <1>3, <2>1, <2>2 DEF Typed, Stacked, Waits
<1> HIDE DEF F
<1>5. frames' \in Seq(Frame) /\ Stacked'
  BY <1>1, <1>3, <1>4, TopReplaced DEF Typed
<1>6. mem' \in Int
  <2>1. Top.pkt.val \in Int
    BY <1>3 DEF Command
  <2> QED
    BY <1>1, <1>2, <2>1
<1>7. TypeOK'
  BY <1>1, <1>5, <1>6 DEF Typed, TypeOK, wires, qemu, program
<1> QED
  BY <1>1, <1>5, <1>7 DEF Typed, FramesWhole

LEMMA TypedForwards ==
  ASSUME PortConstants, Typed, forwards
  PROVE  Typed'
<1> DEFINE p == Top.pkt
           q == Packet(p.cmd, rp_pkt_id, "mem", FALSE, p.posted, 0, p.val)
           e == rp_encode_busaccess(caps, q, 4, 0)
           F == [Top EXCEPT !.slot = rp_pkt_id]
<1>1. /\ phase = "access" /\ p.cmd \in {"read", "write"} /\ p.addr = Hole
      /\ toQemu' = Append(toQemu, e) /\ rp_pkt_id' = rp_pkt_id + 1
      /\ IF p.posted THEN phase' = "delta" /\ UNCHANGED <<frames, resp>>
         ELSE /\ resp' = Reserve("mem", rp_pkt_id)
              /\ frames' = Append(Pop, F) /\ phase' = "listen"
      /\ UNCHANGED <<scenario, qemu, toSc, mutex, rp_pkt_event, caps, master,
                     accesses, wires, mem, out>>
  BY DEF forwards
<1>2. frames # <<>> /\ rp_pkt_id \in Nat /\ rp_pkt_id \in Int
  BY <1>1 DEF Typed, Stacked, TypeOK
<1>3. F \in Frame /\ F.pkt = p /\ F.slot = rp_pkt_id /\ p \in Command
  BY <1>2, Typing DEF Typed
<1> HIDE DEF F, p
<1>4. q \in Command /\ q.cmd = p.cmd
  <2>1. /\ p.cmd \in Cmds /\ p.posted \in BOOLEAN /\ p.val \in Int
        /\ "mem" \in Devs \cup {"qemu"} /\ FALSE \in BOOLEAN /\ 0 \in Int
    BY <1>3 DEF Command, Devs
  <2>2. q \in Command
    BY <1>2, <2>1, PacketType
  <2>3. q.cmd = p.cmd
    BY DEF Packet
  <2> QED
    BY <2>2, <2>3
<1> HIDE DEF q
<1>5. e \in FramedCommand /\ e.wrote = hdrSize + e.len
  BY <1>1, <1>4, BusFramed
<1> HIDE DEF e
<1>6. toQemu' \in Seq(FramedCommand) /\ FramesWhole'
  BY <1>1, <1>5, QemuGrows DEF Typed
<1>7. frames' \in Seq(Frame) /\ Stacked'
  <2>1. CASE p.posted
    <3>1. frames' = frames /\ phase' = "delta"
      BY <1>1, <2>1
    <3> QED
      BY <1>1, <3>1 DEF Typed, Stacked, Waits, Top, TypeOK, p
  <2>2. CASE ~p.posted
    <3>1. F.slot # -1
      BY <1>2, <1>3
    <3>2. frames' = Append(Pop, F) /\ phase' = "listen"
      BY <1>1, <2>2
    <3> QED
      BY <1>1, <1>3, <2>2, <3>1, <3>2, TopReplaced DEF Typed, p
  <2> QED
    BY <2>1, <2>2
<1>8. Slotful(resp') /\ phase' \in {"listen", "delta"}
  BY <1>1, <1>2, ReserveType DEF Typed, TypeOK, Slotful, Devs
<1>9. rp_pkt_id' \in Nat
  BY <1>1, <1>2
<1>10. TypeOK'
  BY <1>1, <1>6, <1>7, <1>8, <1>9
  DEF Typed, TypeOK, wires, qemu, program, Slotful
<1> QED
  BY <1>6, <1>7, <1>10 DEF Typed

LEMMA TypedReplies ==
  ASSUME PortConstants, Typed, replies \/ cmd_interrupt
  PROVE  Typed'
<1>1. /\ phase \in {"access", "delta"} /\ frames' = Pop /\ phase' = "sync"
      /\ UNCHANGED <<scenario, qemu, toSc, mutex, rp_pkt_event, caps, rp_pkt_id,
                     resp, master, accesses, wires, mem>>
  BY DEF replies, cmd_interrupt
<1>2. frames # <<>>
  BY <1>1 DEF Typed, Stacked
<1>3. Top.pkt \in Command /\ Top.val \in Int
  BY <1>2, Typing DEF Typed
<1>4. frames' \in Seq(Frame) /\ Stacked'
  BY <1>1, TopGone DEF Typed
<1>5. toQemu' \in Seq(FramedCommand) /\ FramesWhole'
  <2>1. CASE toQemu' = toQemu
    BY <2>1 DEF Typed, TypeOK, FramesWhole
  <2>2. CASE replies /\ toQemu' # toQemu
    <3> DEFINE a == Answer(Top.pkt, Top.val)
               e == rp_encode_busaccess(caps, a, 4, 0)
    <3>1. toQemu' = Append(toQemu, e) /\ Top.pkt.cmd \in {"read", "write"}
      BY <2>2 DEF replies, Typed, Stacked
    <3>2. a \in Command /\ a.cmd = Top.pkt.cmd
      BY <1>3, AnswerType
    <3> HIDE DEF a
    <3>3. e \in FramedCommand /\ e.wrote = hdrSize + e.len
      BY <3>1, <3>2, BusFramed
    <3> HIDE DEF e
    <3> QED
      BY <3>1, <3>3, QemuGrows DEF Typed
  <2>3. CASE cmd_interrupt /\ toQemu' # toQemu
    <3> DEFINE a == Answer(Top.pkt, 0)
               e == rp_encode_other(a, 21)
    <3>1. toQemu' = Append(toQemu, e)
      BY <2>3 DEF cmd_interrupt
    <3>2. a \in Command
      BY <1>3, AnswerType
    <3> HIDE DEF a
    <3>3. e \in FramedCommand /\ e.wrote = hdrSize + e.len
      BY <3>1, <3>2, OtherFramed
    <3> HIDE DEF e
    <3> QED
      BY <3>1, <3>3, QemuGrows DEF Typed
  <2> QED
    BY <2>1, <2>2, <2>3
<1>6. out' \in Int
  <2>1. Top.pkt.val \in Int
    BY <1>3 DEF Command
  <2> QED
    BY <2>1 DEF replies, cmd_interrupt, Typed, TypeOK
<1>7. TypeOK'
  BY <1>1, <1>4, <1>5, <1>6 DEF Typed, TypeOK, wires, qemu, program
<1> QED
  BY <1>4, <1>5, <1>7 DEF Typed

LEMMA Enables ==
  ASSUME PortConstants, TypeOK
  PROVE  "ext_byte_en" \in caps => "ext_base" \in caps
<1>1. "ext_byte_en" \in scenario.caps => "ext_base" \in scenario.caps
  BY ScenarioType DEF TypeOK, WellFormed
<1> QED
  BY <1>1 DEF TypeOK

(* What b_transport of a thread does.                                      *)
Transport(m, q, be) ==
  /\ be # 0 => "ext_byte_en" \in caps
  /\ toQemu' = Append(toQemu, rp_encode_busaccess(caps, q, 4, be))
  /\ rp_pkt_id' = rp_pkt_id + 1
  /\ IF q.posted THEN UNCHANGED <<resp, master>>
     ELSE /\ resp' = Reserve("mem", rp_pkt_id)
          /\ master' = [master EXCEPT ![m] =
               [at |-> "waits", id |-> rp_pkt_id, val |-> 0]]

LEMMA TransportCases ==
  ASSUME TypeOK, NEW m \in Masters, b_transport(m)
  PROVE  /\ master[m].at = "idle" /\ accesses < scenario.accesses
         /\ accesses' = accesses + 1 /\ phase \notin {"reset", "read"}
         /\ UNCHANGED <<scenario, qemu, toSc, mutex, rp_pkt_event, phase,
                        frames, caps, wires, mem, out>>
         /\ \/ UNCHANGED <<toQemu, rp_pkt_id, resp, master>>
            \/ \E q \in Command, be \in {0, 4} :
                 /\ q.cmd \in {"read", "write"} /\ q.id = rp_pkt_id
                 /\ q.dev = "mem" /\ ~q.response /\ Transport(m, q, be)
<1>1. PICK cmd \in {"read", "write"}, posted \in BOOLEAN, be \in {0, 4} :
        IF be # 0 /\ "ext_byte_en" \notin caps
        THEN UNCHANGED <<toQemu, rp_pkt_id, resp, master>>
        ELSE /\ toQemu' = Append(toQemu, rp_encode_busaccess(caps,
                  Packet(cmd, rp_pkt_id, "mem", FALSE, posted, 0, 0), 4, be))
             /\ rp_pkt_id' = rp_pkt_id + 1
             /\ IF posted THEN UNCHANGED <<resp, master>>
                ELSE /\ resp' = Reserve("mem", rp_pkt_id)
                     /\ master' = [master EXCEPT ![m] =
                          [at |-> "waits", id |-> rp_pkt_id, val |-> 0]]
  BY DEF b_transport
<1>2. CASE UNCHANGED <<toQemu, rp_pkt_id, resp, master>>
  BY <1>2 DEF b_transport, Running
<1>3. CASE ~(be # 0 /\ "ext_byte_en" \notin caps)
  <2> DEFINE q == Packet(cmd, rp_pkt_id, "mem", FALSE, posted, 0, 0)
  <2>1. q = [cmd |-> cmd, id |-> rp_pkt_id, dev |-> "mem",
             response |-> FALSE, posted |-> posted, addr |-> 0, val |-> 0]
    BY DEF Packet
  <2>4. q \in Command
    <3>1. /\ cmd \in Cmds /\ rp_pkt_id \in Nat /\ 0 \in Int
          /\ "mem" \in Devs \cup {"qemu"} /\ FALSE \in BOOLEAN
      BY DEF TypeOK, Cmds, Devs
    <3> QED
      BY <3>1, PacketType
  <2> HIDE DEF q
  <2>2. /\ q.cmd = cmd /\ q.id = rp_pkt_id /\ q.dev = "mem" /\ ~q.response
        /\ q.posted = posted
    BY <2>1
  <2>3. Transport(m, q, be)
    BY <1>1, <1>3, <2>2 DEF Transport, q
  <2> QED
    BY <2>2, <2>3, <2>4 DEF b_transport, Running
<1> QED
  BY <1>1, <1>2, <1>3

LEMMA TypedTransport ==
  ASSUME PortConstants, Typed, NEW m \in Masters, b_transport(m)
  PROVE  Typed'
<1>1. /\ accesses < scenario.accesses /\ accesses' = accesses + 1
      /\ UNCHANGED <<scenario, qemu, toSc, mutex, rp_pkt_event, phase,
                     frames, caps, wires, mem, out>>
  BY TransportCases DEF Typed
<1>2. accesses' \in 0 .. scenario.accesses
  <2>1. scenario.accesses \in Nat /\ accesses \in 0 .. scenario.accesses
    BY ScenarioType DEF Typed, TypeOK, WellFormed
  <2> QED
    BY ONLY <1>1, <2>1
<1>3. Stacked'
  BY <1>1 DEF Typed, Stacked, Waits, Top
<1>4. CASE UNCHANGED <<toQemu, rp_pkt_id, resp, master>>
  <2>1. TypeOK'
    BY <1>1, <1>2, <1>4 DEF Typed, TypeOK, wires, qemu, program
  <2> QED
    BY <1>3, <1>4, <2>1 DEF Typed, FramesWhole
<1>5. ASSUME NEW q \in Command, NEW be \in {0, 4},
             q.cmd \in {"read", "write"}, Transport(m, q, be)
      PROVE  Typed'
  <2> DEFINE e == rp_encode_busaccess(caps, q, 4, be)
  <2>1. /\ be # 0 => "ext_base" \in caps
        /\ toQemu' = Append(toQemu, e) /\ rp_pkt_id' = rp_pkt_id + 1
    BY <1>5, Enables DEF Transport, Typed
  <2>2. e \in FramedCommand /\ e.wrote = hdrSize + e.len
    BY <1>5, <2>1, BusFramed
  <2> HIDE DEF e
  <2>3. toQemu' \in Seq(FramedCommand) /\ FramesWhole'
    BY <2>1, <2>2, QemuGrows DEF Typed
  <2>4. rp_pkt_id \in Nat
    BY DEF Typed, TypeOK
  <2>5. Slotful(resp')
    BY <1>5, <2>4, ReserveType DEF Transport, Typed, TypeOK, Slotful, Devs
  <2>6. master' \in [Masters -> Thread]
    <3>1. [at |-> "waits", id |-> rp_pkt_id, val |-> 0] \in Thread
      BY <2>4 DEF Thread
    <3> QED
      BY <1>5, <3>1 DEF Transport, Typed, TypeOK
  <2>7. rp_pkt_id' \in Nat
    BY <2>1, <2>4
  <2>8. TypeOK'
    BY <1>1, <1>2, <2>3, <2>5, <2>6, <2>7
    DEF Typed, TypeOK, wires, qemu, program, Slotful
  <2> QED
    BY <1>3, <2>3, <2>8 DEF Typed
<1> QED
  BY <1>4, <1>5, TransportCases DEF Typed

LEMMA ValueType ==
  ASSUME TypeOK, NEW d \in Devs, NEW id, Ready(d, id)
  PROVE  ValueOf(d, id) \in Int
<1>1. PICK m \in response_lookup(d, id) : TRUE
  BY DEF Ready
<1> DEFINE j == CHOOSE i \in response_lookup(d, id) : TRUE
<1>2. j \in response_lookup(d, id)
  BY <1>1
<1>3. j \in Slot
  BY <1>2 DEF response_lookup
<1> HIDE DEF j
<1>4. resp[d][j] \in SlotState
  BY <1>3 DEF TypeOK
<1> QED
  BY <1>4 DEF ValueOf, SlotState, j

LEMMA TypedWaits ==
  ASSUME Typed, NEW m \in Masters, response_wait(m)
  PROVE  Typed'
<1> DEFINE y == [master[m] EXCEPT !.at = "idle",
                                  !.val = ValueOf("mem", master[m].id)]
<1>1. /\ Ready("mem", master[m].id) /\ master' = [master EXCEPT ![m] = y]
      /\ resp' = response_done("mem", master[m].id)
      /\ UNCHANGED <<scenario, qemu, toSc, toQemu, mutex, rp_pkt_event, phase,
                     frames, caps, rp_pkt_id, accesses, wires, mem, out>>
  BY DEF response_wait
<1>2. y \in Thread
  <2>1. ValueOf("mem", master[m].id) \in Int
    BY <1>1, ValueType DEF Typed, Devs
  <2>2. master[m] \in Thread
    BY DEF Typed, TypeOK
  <2> QED
    BY <2>1, <2>2 DEF Thread
<1> HIDE DEF y
<1>3. master' \in [Masters -> Thread]
  BY <1>1, <1>2 DEF Typed, TypeOK
<1>4. Slotful(resp')
  BY <1>1, DoneType DEF Typed, TypeOK, Slotful, Devs
<1>5. TypeOK'
  BY <1>1, <1>3, <1>4 DEF Typed, TypeOK, wires, qemu, program, Slotful
<1>6. Stacked'
  BY <1>1 DEF Typed, Stacked, Waits, Top
<1> QED
  BY <1>1, <1>5, <1>6 DEF Typed, FramesWhole

LEMMA TypedChanges ==
  ASSUME PortConstants, Typed, NEW w \in Wires, wire_changes(w)
  PROVE  Typed'
<1>1. /\ changes < scenario.changes /\ changes' = changes + 1
      /\ level' = [level EXCEPT ![w] = 1 - @]
      /\ changed' \in {changed, changed \cup {w}}
      /\ UNCHANGED <<scenario, qemu, toSc, toQemu, mutex, rp_pkt_event, phase,
                     frames, caps, rp_pkt_id, resp, master, accesses,
                     wire_update, mem, out>>
  BY DEF wire_changes
<1>2. changes' \in 0 .. scenario.changes
  <2>1. scenario.changes \in Nat /\ changes \in 0 .. scenario.changes
    BY ScenarioType DEF Typed, TypeOK, WellFormed
  <2> QED
    BY ONLY <1>1, <2>1
<1>3. level' \in [Wires -> {0, 1}]
  <2>1. level \in [Wires -> {0, 1}]
    BY DEF Typed, TypeOK
  <2>2. 1 - level[w] \in {0, 1}
    BY <2>1
  <2> QED
    BY <1>1, <2>1, <2>2
<1>4. TypeOK'
  BY <1>1, <1>2, <1>3 DEF Typed, TypeOK, qemu, program
<1>5. Stacked'
  BY <1>1 DEF Typed, Stacked, Waits, Top
<1> QED
  BY <1>1, <1>4, <1>5 DEF Typed, FramesWhole

(* The packets of an update: the last one may ask for an answer.           *)
UpdatePosted(n, k) == k < n \/ scenario.posted_updates
Update(ws, n, k) ==
  Packet("interrupt", rp_pkt_id + k - 1, "wires", FALSE, UpdatePosted(n, k),
         ws[k], level[ws[k]])
UpdatePackets ==
  [k \in 1 .. Len(Updates(changed)) |->
     rp_encode_other(Update(Updates(changed), Len(Updates(changed)), k), 21)]

LEMMA UpdatesSent ==
  ASSUME PortConstants, TypeOK, updates_wires
  PROVE  LET n == Len(Updates(changed)) IN
         /\ n \in Nat \ {0} /\ UpdatePackets \in Seq(FramedCommand)
         /\ Len(UpdatePackets) = n /\ DOMAIN UpdatePackets = 1 .. n
         /\ Updates(changed) \in Seq(changed)
         /\ DOMAIN Updates(changed) = 1 .. n
         /\ \A w \in changed : \E k \in 1 .. n : Updates(changed)[k] = w
         /\ \A k, l \in 1 .. n :
              Updates(changed)[k] = Updates(changed)[l] => k = l
         /\ \A k \in 1 .. n :
              LET p == UpdatePackets[k] IN
              /\ p.wrote = hdrSize + p.len /\ p.cmd = "interrupt"
              /\ p.id = rp_pkt_id + k - 1 /\ p.dev = "wires" /\ ~p.response
              /\ p.posted = UpdatePosted(n, k)
              /\ p.addr = Updates(changed)[k]
              /\ p.val = level[Updates(changed)[k]]
         /\ toQemu' = toQemu \o UpdatePackets /\ rp_pkt_id' = rp_pkt_id + n
         /\ IF "wire_posted_updates" \in caps /\ ~scenario.posted_updates
            THEN /\ resp' = Reserve("wires", rp_pkt_id + n - 1)
                 /\ wire_update' = [wire_update EXCEPT
                      !.at = "waits", !.id = rp_pkt_id + n - 1]
            ELSE UNCHANGED <<resp, wire_update>>
         /\ phase \notin {"reset", "read"} /\ wire_update.at = "idle"
         /\ changed' = {}
         /\ UNCHANGED <<scenario, qemu, toSc, mutex, rp_pkt_event, phase,
                        frames, caps, master, accesses, level, changes, mem,
                        out>>
<1> DEFINE ws == Updates(changed)
           n == Len(ws)
<1>1. IsFiniteSet(changed) /\ changed \subseteq Nat /\ changed \subseteq Wires
      /\ changed # {}
  BY FS_Subset DEF TypeOK, PortConstants, updates_wires
<1>2. /\ n \in Nat \ {0} /\ ws \in Seq(changed) /\ DOMAIN ws = 1 .. n
      /\ \A w \in changed : \E k \in 1 .. n : ws[k] = w
      /\ \A k, l \in 1 .. n : ws[k] = ws[l] => k = l
  <2>1. /\ Cardinality(changed) \in Nat /\ ws \in Seq(changed)
        /\ n = Cardinality(changed) /\ DOMAIN ws = 1 .. Cardinality(changed)
        /\ \A w \in changed : \E k \in DOMAIN ws : ws[k] = w
        /\ \A k, l \in DOMAIN ws : ws[k] = ws[l] => k = l
    BY <1>1, UpdatesOrder
  <2>2. Cardinality(changed) # 0
    BY <1>1, FS_EmptySet
  <2> HIDE DEF ws
  <2> QED
    BY <2>1, <2>2
<1>3. /\ toQemu' = toQemu \o UpdatePackets /\ rp_pkt_id' = rp_pkt_id + n
      /\ IF "wire_posted_updates" \in caps /\ ~scenario.posted_updates
         THEN /\ resp' = Reserve("wires", rp_pkt_id + n - 1)
              /\ wire_update' = [wire_update EXCEPT
                   !.at = "waits", !.id = rp_pkt_id + n - 1]
         ELSE UNCHANGED <<resp, wire_update>>
      /\ phase \notin {"reset", "read"} /\ wire_update.at = "idle"
      /\ changed' = {}
      /\ UNCHANGED <<scenario, qemu, toSc, mutex, rp_pkt_event, phase,
                     frames, caps, master, accesses, level, changes, mem, out>>
  BY DEF updates_wires, UpdatePackets, Update, UpdatePosted, Running
<1>4. UpdatePackets = [k \in 1 .. n |-> rp_encode_other(Update(ws, n, k), 21)]
  BY DEF UpdatePackets
<1> HIDE DEF ws, n
<1>5. \A k \in 1 .. n :
        /\ Update(ws, n, k) \in Command
        /\ Update(ws, n, k)
             = [cmd |-> "interrupt", id |-> rp_pkt_id + k - 1, dev |-> "wires",
                response |-> FALSE, posted |-> UpdatePosted(n, k),
                addr |-> ws[k], val |-> level[ws[k]]]
  <2> TAKE k \in 1 .. n
  <2>1. ws[k] \in changed
    BY <1>2, ElementOfSeq DEF n
  <2>2. ws[k] \in Wires /\ ws[k] \in Nat /\ ws[k] \in Int
    <3> DEFINE w == ws[k]
    <3>1. w \in Wires /\ w \in Nat
      BY <1>1, <2>1
    <3> HIDE DEF w
    <3>2. w \in Int
      BY ONLY <3>1
    <3> QED
      BY <3>1, <3>2 DEF w
  <2>3. level[ws[k]] \in Int
    BY <2>2 DEF TypeOK
  <2>4. rp_pkt_id + k - 1 \in Nat
    BY <1>2 DEF TypeOK
  <2>5. UpdatePosted(n, k) \in BOOLEAN
    <3>1. scenario.posted_updates \in BOOLEAN
      BY ScenarioType DEF TypeOK, WellFormed
    <3> QED
      BY <3>1 DEF UpdatePosted
  <2>6. /\ "interrupt" \in Cmds /\ "wires" \in Devs \cup {"qemu"}
        /\ FALSE \in BOOLEAN
    BY DEF Cmds, Devs
  <2>7. Update(ws, n, k) \in Command
    BY <2>2, <2>3, <2>4, <2>5, <2>6, PacketType DEF Update
  <2> QED
    BY <2>7 DEF Update, Packet
<1>6. ASSUME NEW k \in 1 .. n
      PROVE  LET p == UpdatePackets[k] IN
             /\ p \in FramedCommand
             /\ p.wrote = hdrSize + p.len /\ p.cmd = "interrupt"
             /\ p.id = rp_pkt_id + k - 1 /\ p.dev = "wires" /\ ~p.response
             /\ p.posted = UpdatePosted(n, k)
             /\ p.addr = ws[k] /\ p.val = level[ws[k]]
  <2> DEFINE u == Update(ws, n, k)
             e == rp_encode_other(u, 21)
  <2>1. /\ u \in Command /\ u.cmd = "interrupt" /\ u.id = rp_pkt_id + k - 1
        /\ u.dev = "wires" /\ ~u.response /\ u.posted = UpdatePosted(n, k)
        /\ u.addr = ws[k] /\ u.val = level[ws[k]]
    <3>1. /\ u \in Command
          /\ u = [cmd |-> "interrupt", id |-> rp_pkt_id + k - 1,
                  dev |-> "wires", response |-> FALSE,
                  posted |-> UpdatePosted(n, k), addr |-> ws[k],
                  val |-> level[ws[k]]]
      BY <1>5
    <3> HIDE DEF u
    <3> QED
      BY <3>1
  <2>2. UpdatePackets[k] = e
    BY <1>4
  <2> HIDE DEF u
  <2>3. e \in FramedCommand /\ Carries(e, u) /\ e.wrote = hdrSize + e.len
    BY <2>1, OtherFramed
  <2> HIDE DEF e
  <2> QED
    BY <2>1, <2>2, <2>3 DEF Carries
<1>7. UpdatePackets \in Seq(FramedCommand) /\ Len(UpdatePackets) = n
      /\ DOMAIN UpdatePackets = 1 .. n
  <2>1. DOMAIN UpdatePackets = 1 .. n
    BY <1>4
  <2>2. UpdatePackets \in [1 .. n -> FramedCommand]
    BY <1>4, <1>6, <2>1
  <2> QED
    BY <1>2, <2>1, <2>2, SeqDef, LenProperties
<1> QED
  BY <1>2, <1>3, <1>6, <1>7 DEF n, ws

LEMMA TypedUpdates ==
  ASSUME PortConstants, Typed, updates_wires
  PROVE  Typed'
<1> DEFINE n == Len(Updates(changed))
<1>1. /\ n \in Nat \ {0} /\ UpdatePackets \in Seq(FramedCommand)
      /\ \A k \in DOMAIN UpdatePackets :
           UpdatePackets[k].wrote = hdrSize + UpdatePackets[k].len
      /\ toQemu' = toQemu \o UpdatePackets /\ rp_pkt_id' = rp_pkt_id + n
      /\ IF "wire_posted_updates" \in caps /\ ~scenario.posted_updates
         THEN /\ resp' = Reserve("wires", rp_pkt_id + n - 1)
              /\ wire_update' = [wire_update EXCEPT
                   !.at = "waits", !.id = rp_pkt_id + n - 1]
         ELSE UNCHANGED <<resp, wire_update>>
      /\ changed' = {}
      /\ UNCHANGED <<scenario, qemu, toSc, mutex, rp_pkt_event, phase,
                     frames, caps, master, accesses, level, changes, mem, out>>
  BY UpdatesSent DEF Typed
<1>2. rp_pkt_id' \in Nat /\ rp_pkt_id + n - 1 \in Nat
  <2>1. rp_pkt_id \in Nat /\ n \in Nat \ {0} /\ rp_pkt_id' = rp_pkt_id + n
    BY <1>1 DEF Typed, TypeOK
  <2> HIDE DEF n
  <2> QED
    BY ONLY <2>1
<1> HIDE DEF n
<1>3. Slotful(resp')
  BY <1>1, <1>2, ReserveType DEF Typed, TypeOK, Slotful, Devs
<1>4. wire_update' \in Thread
  BY <1>1, <1>2 DEF Typed, TypeOK, Thread
<1>5. toQemu' \in Seq(FramedCommand) /\ FramesWhole'
  <2>1. /\ toQemu' \in Seq(FramedCommand)
        /\ \A i \in DOMAIN toQemu' :
             \/ i \in DOMAIN toQemu /\ toQemu'[i] = toQemu[i]
             \/ \E k \in DOMAIN UpdatePackets : toQemu'[i] = UpdatePackets[k]
    BY <1>1, Joined DEF Typed, TypeOK
  <2> QED
    BY <1>1, <2>1 DEF Typed, FramesWhole, hdrSize
<1>6. Stacked'
  BY <1>1 DEF Typed, Stacked, Waits, Top
<1>7. TypeOK'
  BY <1>1, <1>2, <1>3, <1>4, <1>5
  DEF Typed, TypeOK, qemu, program, Slotful
<1> QED
  BY <1>5, <1>6, <1>7 DEF Typed

LEMMA TypedUpdated ==
  ASSUME Typed, updated_wires
  PROVE  Typed'
<1>1. /\ wire_update' = [wire_update EXCEPT !.at = "idle"]
      /\ resp' = response_done("wires", wire_update.id)
      /\ UNCHANGED <<scenario, qemu, toSc, toQemu, mutex, rp_pkt_event, phase,
                     frames, caps, rp_pkt_id, master, accesses, level, changed,
                     changes, mem, out>>
  BY DEF updated_wires
<1>2. wire_update' \in Thread
  BY <1>1 DEF Typed, TypeOK, Thread
<1>3. Slotful(resp')
  BY <1>1, DoneType DEF Typed, TypeOK, Slotful, Devs
<1>4. TypeOK'
  BY <1>1, <1>2, <1>3 DEF Typed, TypeOK, qemu, program, Slotful
<1>5. Stacked'
  BY <1>1 DEF Typed, Stacked, Waits, Top
<1> QED
  BY <1>1, <1>4, <1>5 DEF Typed, FramesWhole

LEMMA TypedStep ==
  ASSUME PortConstants, Typed, [Next]_vars
  PROVE  Typed'
<1>1. CASE UNCHANGED vars
  BY <1>1 DEF vars, Typed, TypeOK, FramesWhole, Stacked, Waits, Top, qemu,
              wires, program
<1>2. CASE Next
  BY <1>2, TypedQemuSends, TypedQemuReceives, TypedThread, TypedHello,
     TypedReceives, TypedAccess, TypedForwards, TypedReplies, TypedTransport,
     TypedWaits, TypedChanges, TypedUpdates, TypedUpdated DEF Next
<1> QED
  BY <1>1, <1>2

-----------------------------------------------------------------------------
(* The numbers that the frames hold.                                       *)

LEMMA HeldReplaced ==
  ASSUME TypeOK, frames # <<>>, SlotsApart, NEW F \in Frame,
         frames' = Append(Pop, F)
  PROVE  /\ F.slot = Top.slot => Held' = Held /\ SlotsApart'
         /\ Top.slot = -1 /\ F.slot # -1 /\ F.slot \notin Held
              => Held' = Held \cup {F.slot} /\ SlotsApart'
         /\ Top.slot # -1 /\ F.slot = -1
              => Held' = Held \ {Top.slot} /\ SlotsApart'
<1> DEFINE n == Len(frames)
<1>1. /\ n \in Nat \ {0}
      /\ DOMAIN frames' = 1 .. n /\ DOMAIN frames = 1 .. n
      /\ \A k \in 1 .. n : frames'[k] = IF k = n THEN F ELSE frames[k]
      /\ Top = frames[n]
  BY Stack
<1>2. n \in 1 .. n
  <2>1. n \in Nat \ {0}
    BY <1>1
  <2> QED
    BY ONLY <2>1
<1> HIDE DEF n
<1>3. \A x : x \in Held <=> x # -1 /\ \E k \in 1 .. n : frames[k].slot = x
  BY <1>1 DEF Held
<1>4. \A x : x \in Held' <=> x # -1 /\ \E k \in 1 .. n : frames'[k].slot = x
  BY <1>1 DEF Held
<1>5. \A k, l \in 1 .. n :
        frames[k].slot # -1 /\ frames[k].slot = frames[l].slot => k = l
  BY <1>1 DEF SlotsApart, Waits
<1>6. SlotsApart' <=> \A k, l \in 1 .. n :
        frames'[k].slot # -1 /\ frames'[k].slot = frames'[l].slot => k = l
  BY <1>1 DEF SlotsApart, Waits
<1>7. CASE F.slot = Top.slot
  <2>1. \A k \in 1 .. n : frames'[k].slot = frames[k].slot
    BY <1>1, <1>7
  <2>2. Held' = Held
    <3>1. \A x : x \in Held' <=> x \in Held
      BY <1>3, <1>4, <2>1
    <3> HIDE DEF Held
    <3> QED
      BY <3>1
  <2>3. SlotsApart'
    BY <1>5, <1>6, <2>1
  <2> QED
    BY <1>7, <2>2, <2>3
<1>8. CASE Top.slot = -1 /\ F.slot # -1 /\ F.slot \notin Held
  <2>1. \A k \in 1 .. n : k # n => frames'[k].slot = frames[k].slot
    BY <1>1
  <2>2. frames'[n].slot = F.slot /\ frames[n].slot = -1
    BY <1>1, <1>2, <1>8
  <2>3. \A x : x \in Held' <=> x \in Held \/ x = F.slot
    BY <1>2, <1>3, <1>4, <1>8, <2>1, <2>2
  <2>4. \A k \in 1 .. n : frames[k].slot # F.slot
    BY <1>3, <1>8
  <2>5. SlotsApart'
    BY <1>5, <1>6, <2>1, <2>2, <2>4
  <2> QED
    BY <1>8, <2>3, <2>5
<1>9. CASE Top.slot # -1 /\ F.slot = -1
  <2>1. \A k \in 1 .. n : k # n => frames'[k].slot = frames[k].slot
    BY <1>1
  <2>2. frames'[n].slot = -1 /\ frames[n].slot = Top.slot
    BY <1>1, <1>2, <1>9
  <2>3. \A k \in 1 .. n : frames[k].slot = Top.slot => k = n
    BY <1>2, <1>5, <1>9, <2>2
  <2>4. \A x : x \in Held' <=> x \in Held /\ x # Top.slot
    <3>1. \A x : x \in Held' => x \in Held /\ x # Top.slot
      <4> TAKE x
      <4> HAVE x \in Held'
      <4>1. PICK k \in 1 .. n : frames'[k].slot = x /\ x # -1
        BY <1>4
      <4>2. k # n
        BY <2>2, <4>1
      <4> QED
        BY <1>3, <2>1, <2>3, <4>1, <4>2
    <3>2. \A x : x \in Held /\ x # Top.slot => x \in Held'
      <4> TAKE x
      <4> HAVE x \in Held /\ x # Top.slot
      <4>1. PICK k \in 1 .. n : frames[k].slot = x /\ x # -1
        BY <1>3
      <4>2. k # n
        BY <2>2, <4>1
      <4> QED
        BY <1>4, <2>1, <4>1, <4>2
    <3> QED
      BY <3>1, <3>2
  <2>5. SlotsApart'
    BY <1>5, <1>6, <2>1, <2>2
  <2> QED
    BY <1>9, <2>4, <2>5
<1> QED
  BY <1>7, <1>8, <1>9

LEMMA HeldPushed ==
  ASSUME TypeOK, SlotsApart, NEW F \in Frame, F.slot = -1,
         frames' = Append(frames, F)
  PROVE  Held' = Held /\ SlotsApart'
<1> DEFINE n == Len(frames)
<1>1. /\ n \in Nat /\ DOMAIN frames = 1 .. n
      /\ DOMAIN frames' = (1 .. n) \cup {n + 1}
      /\ \A k \in 1 .. n : frames'[k] = frames[k]
      /\ frames'[n + 1] = F
  BY Appended DEF TypeOK
<1> HIDE DEF n
<1>2. \A k \in DOMAIN frames' : frames'[k].slot # -1 =>
        k \in DOMAIN frames /\ frames'[k] = frames[k]
  BY <1>1
<1>3. \A k \in DOMAIN frames : k \in DOMAIN frames' /\ frames'[k] = frames[k]
  BY <1>1
<1>4. \A x : x \in Held <=>
        x # -1 /\ \E k \in DOMAIN frames : frames[k].slot = x
  BY DEF Held
<1>5. \A x : x \in Held' <=>
        x # -1 /\ \E k \in DOMAIN frames' : frames'[k].slot = x
  BY DEF Held
<1>6. Held' = Held
  <2>1. \A x : x \in Held' => x \in Held
    BY <1>2, <1>3, <1>4, <1>5
  <2>2. \A x : x \in Held => x \in Held'
    BY <1>2, <1>3, <1>4, <1>5
  <2> HIDE DEF Held
  <2> QED
    BY <2>1, <2>2
<1>7. SlotsApart'
  BY <1>2 DEF SlotsApart, Waits
<1> QED
  BY <1>6, <1>7

LEMMA HeldPopped ==
  ASSUME TypeOK, frames # <<>>, SlotsApart, Top.slot = -1, frames' = Pop
  PROVE  Held' = Held /\ SlotsApart'
<1> DEFINE n == Len(frames)
<1>1. /\ n \in Nat \ {0}
      /\ DOMAIN frames' = 1 .. n - 1 /\ DOMAIN frames = 1 .. n
      /\ \A k \in 1 .. n - 1 : frames'[k] = frames[k]
      /\ Top = frames[n]
  BY Stack
<1> HIDE DEF n
<1>2. \A k \in DOMAIN frames : frames[k].slot # -1 =>
        k \in DOMAIN frames' /\ frames'[k] = frames[k]
  BY <1>1
<1>3. \A k \in DOMAIN frames' : k \in DOMAIN frames /\ frames'[k] = frames[k]
  BY <1>1
<1>4. \A x : x \in Held <=>
        x # -1 /\ \E k \in DOMAIN frames : frames[k].slot = x
  BY DEF Held
<1>5. \A x : x \in Held' <=>
        x # -1 /\ \E k \in DOMAIN frames' : frames'[k].slot = x
  BY DEF Held
<1>6. Held' = Held
  <2>1. \A x : x \in Held' => x \in Held
    BY <1>2, <1>3, <1>4, <1>5
  <2>2. \A x : x \in Held => x \in Held'
    BY <1>2, <1>3, <1>4, <1>5
  <2> HIDE DEF Held
  <2> QED
    BY <2>1, <2>2
<1>7. SlotsApart'
  BY <1>3 DEF SlotsApart, Waits
<1> QED
  BY <1>6, <1>7

LEMMA TopWaits ==
  ASSUME TypeOK, Stacked, frames # <<>>
  PROVE  /\ phase \in {"access", "delta"} => Top.slot = -1
         /\ phase \notin {"access", "delta"} => Top.slot # -1
         /\ Top.slot # -1 => Top.slot \in Held
<1>1. /\ Len(frames) \in Nat \ {0} /\ DOMAIN frames = 1 .. Len(frames)
      /\ Top = frames[Len(frames)]
  BY Stack
<1>2. Len(frames) \in DOMAIN frames /\ ~(Len(frames) < Len(frames))
  BY ONLY <1>1
<1> QED
  BY <1>1, <1>2 DEF Stacked, Waits, Held

-----------------------------------------------------------------------------
(* One packet to QEMU.                                                     *)

LEMMA OneSent ==
  ASSUME NEW qe \in Seq(FramedCommand), NEW e \in FramedCommand
  PROVE  /\ Append(qe, e) = qe \o <<e>> /\ <<e>> \in Seq(FramedCommand)
         /\ <<e>> # <<>> /\ Len(<<e>>) = 1 /\ DOMAIN <<e>> = {1}
         /\ <<e>>[1] = e /\ Elems(<<e>>) = {e}
<1>1. Append(qe, e) = qe \o <<e>>
  BY AppendIsConcat
<1>2. DOMAIN <<e>> = {1}
  OBVIOUS
<1> QED
  BY <1>1, <1>2 DEF Elems

LEMMA SendsOneQuietly ==
  ASSUME NEW r, NEW sc, NEW qe, Sent(sc, qe), Flying(r, sc, qe),
         NEW e \in FramedCommand, ~Asks(e)
  PROVE  Flying(r, sc, Append(qe, e))
<1>1. qe \in Seq(FramedCommand)
  BY DEF Sent
<1> DEFINE s == <<e>>
<1>2. /\ Append(qe, e) = qe \o s /\ s \in Seq(FramedCommand)
      /\ Elems(s) = {e}
  BY <1>1, OneSent
<1> HIDE DEF s
<1>3. Flying(r, sc, qe \o s)
  BY <1>2, SendsQuietly
<1> QED
  BY <1>2, <1>3

LEMMA SendsOneAsking ==
  ASSUME NEW r, NEW sc, NEW qe, Sent(sc, qe), Flying(r, sc, qe), Slotful(r),
         NEW e \in FramedCommand, Asks(e),
         NEW t, NEW i, Taken(r, t, e.dev, i, e.id), ~r[e.dev][i].valid,
         \A d \in Devs : \A j \in Slot : r[d][j].used => r[d][j].id < e.id
  PROVE  Flying(t, sc, Append(qe, e))
<1>1. qe \in Seq(FramedCommand)
  BY DEF Sent
<1> DEFINE s == <<e>>
<1>2. /\ Append(qe, e) = qe \o s /\ s \in Seq(FramedCommand) /\ s # <<>>
      /\ Len(s) = 1 /\ DOMAIN s = {1} /\ s[1] = e
  BY <1>1, OneSent
<1> HIDE DEF s
<1>3. \A k \in DOMAIN s : Asks(s[k]) <=> k = Len(s)
  BY <1>2
<1>4. s[Len(s)] = e
  BY <1>2
<1>5. /\ Taken(r, t, s[Len(s)].dev, i, s[Len(s)].id)
      /\ ~r[s[Len(s)].dev][i].valid
      /\ \A d \in Devs : \A j \in Slot :
           r[d][j].used => r[d][j].id < s[Len(s)].id
  BY <1>4
<1>6. Flying(t, sc, qe \o s)
  BY <1>2, <1>3, <1>5, SendsAsking
<1> QED
  BY <1>2, <1>6

-----------------------------------------------------------------------------
(* Every step keeps the slots owned and the requests on their way.         *)

UpdatesKnown ==
  changed # {} => scenario.posted_updates \/ caps = scenario.caps

Slotting == Slotted /\ Flying(resp, toSc, toQemu) /\ UpdatesKnown

LEMMA InitSlotting ==
  ASSUME Init
  PROVE  Slotting
<1>1. /\ frames = <<>> /\ toSc = <<>> /\ toQemu = <<>> /\ changed = {}
      /\ \A d \in Devs : \A i \in Slot :
           ~resp[d][i].used /\ ~resp[d][i].valid
      /\ \A m \in Masters : master[m].at = "idle" /\ master[m].val = 0
      /\ wire_update.at = "idle"
  BY DEF Init, Free, Idle
<1>2. Held = {} /\ SlotsApart
  BY <1>1 DEF Held, SlotsApart
<1>3. Owned(resp, master, Held, wire_update, rp_pkt_id)
  BY <1>1, <1>2 DEF Owned, OneEach, SlotsOwned, OwnersServed, OwnersDistinct,
                    NumbersOld, ValuesRight, Devs
<1>4. Elems(toQemu) = {} /\ Elems(toSc) = {}
  BY <1>1 DEF Elems
<1>5. Flying(resp, toSc, toQemu)
  BY <1>1, <1>4
  DEF Flying, AsksExpected, AnswersExpected, OnTheWayOnce, OnTheWay
<1> QED
  BY <1>1, <1>2, <1>3, <1>5 DEF Slotting, Slotted, UpdatesKnown

LEMMA SlottingTypes ==
  ASSUME Typed, Slotting
  PROVE  /\ Slotful(resp) /\ OneEach(resp) /\ Sent(toSc, toQemu)
         /\ Owners(master, Held, wire_update, rp_pkt_id) /\ rp_pkt_id \in Nat
         /\ SlotsApart /\ Owned(resp, master, Held, wire_update, rp_pkt_id)
         /\ Flying(resp, toSc, toQemu)
<1>1. Held \subseteq Int
  <2>1. \A k \in DOMAIN frames : frames[k].slot \in Int
    <3>1. \A k \in DOMAIN frames : frames[k] \in Frame
      BY ElementOfSeq, LenProperties DEF Typed, TypeOK
    <3> QED
      BY <3>1 DEF Frame
  <2> QED
    BY <2>1 DEF Held
<1> QED
  BY <1>1 DEF Typed, TypeOK, Slotting, Slotted, Owned, Slotful, Sent, Owners

LEMMA FlyingNext ==
  ASSUME scenario' = scenario, Flying(resp', toSc', toQemu')
  PROVE  Flying(resp, toSc, toQemu)'
<1>1. \A p : Asks(p)' <=> Asks(p)
  BY DEF Asks
<1>2. AsksExpected(resp, toQemu)'
  BY <1>1 DEF Flying, AsksExpected, Expected, Elems
<1>3. AnswersExpected(resp, toSc)'
  BY DEF Flying, AnswersExpected, Expected, Elems, Responds
<1>4. OnTheWayOnce(toSc, toQemu)'
  BY <1>1 DEF Flying, OnTheWayOnce, Elems, Responds
<1>5. OnTheWay(resp, toSc, toQemu)'
  BY <1>1 DEF Flying, OnTheWay, Comes, Elems, Responds
<1> QED
  BY <1>2, <1>3, <1>4, <1>5 DEF Flying

(* A step that leaves slots, threads, frames and packets alone.            *)
LEMMA SlottingSame ==
  ASSUME Slotting,
         UNCHANGED <<scenario, resp, master, frames, wire_update, rp_pkt_id,
                     toSc, toQemu>>,
         UpdatesKnown'
  PROVE  Slotting'
<1>1. Held' = Held /\ SlotsApart'
  BY DEF Held, SlotsApart, Waits, Slotting, Slotted
<1>2. Flying(resp, toSc, toQemu)'
  BY FlyingNext DEF Slotting
<1>3. Owned(resp, master, Held, wire_update, rp_pkt_id)'
  BY <1>1 DEF Slotting, Slotted
<1> QED
  BY <1>1, <1>2, <1>3 DEF Slotting, Slotted

LEMMA SlottingQemuSends ==
  ASSUME PortConstants, Typed, Slotting, qemu_sends
  PROVE  Slotting'
<1> DEFINE p == program[sent + 1]
           e == Packet(p.cmd, sent + 1, "qemu", FALSE, p.posted, p.addr, p.val)
<1>1. /\ toSc' = Append(toSc, e)
      /\ UNCHANGED <<scenario, toQemu, frames, caps, rp_pkt_id, resp, master,
                     wires>>
  BY DEF qemu_sends
<1>2. toSc' \in Seq(Command) /\ e \in Command
  <2>1. Typed'
    BY TypedQemuSends
  <2>2. sent + 1 \in 1 .. Len(program) /\ sent + 1 \in Nat
    BY ScenarioType DEF Typed, TypeOK, qemu_sends
  <2>3. /\ p.cmd \in Cmds /\ p.posted \in BOOLEAN /\ p.addr \in Int
        /\ p.val \in Int
    BY <2>2, ScenarioType DEF Typed, TypeOK
  <2> HIDE DEF p
  <2> QED
    BY <2>1, <2>2, <2>3, PacketType DEF Typed, TypeOK
<1>3. ~Responds(e)
  BY DEF Responds, Packet
<1> HIDE DEF e
<1>4. Flying(resp, Append(toSc, e), toQemu)
  BY <1>2, <1>3, SlottingTypes, QemuSendsQuietly
<1>5. Held' = Held /\ SlotsApart'
  BY <1>1 DEF Held, SlotsApart, Waits, Slotting, Slotted
<1>6. Flying(resp, toSc, toQemu)'
  BY <1>1, <1>4, FlyingNext
<1>7. Owned(resp, master, Held, wire_update, rp_pkt_id)'
  BY <1>1, <1>5 DEF Slotting, Slotted, wires
<1> QED
  BY <1>1, <1>5, <1>6, <1>7 DEF Slotting, Slotted, UpdatesKnown, wires

LEMMA SlottingQemuReceives ==
  ASSUME PortConstants, Typed, Slotting, qemu_receives
  PROVE  Slotting'
<1> DEFINE p == Head(toQemu)
           e == Answer(p, Told(p.id))
           t == Tail(toQemu)
<1>1. /\ toQemu # <<>> /\ toQemu' = t
      /\ \/ Asks(p) /\ toSc' = Append(toSc, e)
         \/ ~p.response /\ p.posted /\ toSc' = Append(toSc, e)
         \/ ~Asks(p) /\ toSc' = toSc
      /\ UNCHANGED <<scenario, frames, caps, rp_pkt_id, resp, master, wires>>
  BY DEF qemu_receives
<1>2. p \in FramedCommand /\ t \in Seq(FramedCommand)
  BY <1>1, Tailed DEF Typed, TypeOK
<1>3. e \in Command /\ e.id = p.id /\ e.dev = p.dev /\ e.val = Told(e.id)
      /\ e.response /\ e.posted = p.posted
  <2>1. p.id \in Nat
    BY <1>2 DEF FramedCommand
  <2>2. Told(p.id) \in Int
    BY <2>1 DEF Told
  <2> DEFINE v == Told(p.id)
  <2> HIDE DEF p
  <2>3. e = [cmd |-> p.cmd, id |-> p.id, dev |-> p.dev, response |-> TRUE,
             posted |-> p.posted, addr |-> p.addr, val |-> v]
    BY DEF Answer, Packet
  <2>4. e \in Command
    BY <1>2, <2>2, AnswerType
  <2> HIDE DEF e
  <2> QED
    BY <2>3, <2>4
<1> HIDE DEF e
<1>4. /\ Sent(toSc, toQemu) /\ Flying(resp, toSc, toQemu)
      /\ Sent(toSc, t)
  BY <1>2, SlottingTypes DEF Sent
<1>5. Flying(resp, toSc', t)
  <2>1. CASE Asks(p) /\ toSc' = Append(toSc, e)
    <3>1. Responds(e)
      BY <1>3, <2>1 DEF Responds, Asks
    <3> QED
      BY <1>1, <1>3, <1>4, <2>1, <3>1, QemuResponds
  <2>2. CASE ~p.response /\ p.posted /\ toSc' = Append(toSc, e)
    <3>1. ~Asks(p) /\ ~Responds(e)
      BY <1>3, <2>2 DEF Responds, Asks
    <3>2. Flying(resp, toSc, t)
      BY <1>1, <1>4, <3>1, TakesQuietly
    <3> HIDE DEF t
    <3> QED
      BY <1>3, <1>4, <2>2, <3>1, <3>2, QemuSendsQuietly
  <2>3. CASE ~Asks(p) /\ toSc' = toSc
    BY <1>1, <1>4, <2>3, TakesQuietly
  <2> QED
    BY <1>1, <2>1, <2>2, <2>3
<1>6. Held' = Held /\ SlotsApart'
  BY <1>1 DEF Held, SlotsApart, Waits, Slotting, Slotted
<1>7. Flying(resp, toSc, toQemu)'
  BY <1>1, <1>5, FlyingNext
<1>8. Owned(resp, master, Held, wire_update, rp_pkt_id)'
  BY <1>1, <1>6 DEF Slotting, Slotted, wires
<1> QED
  BY <1>1, <1>6, <1>7, <1>8 DEF Slotting, Slotted, UpdatesKnown, wires

LEMMA SlottingHello ==
  ASSUME PortConstants, Typed, Slotting, say_hello
  PROVE  Slotting'
<1> DEFINE q == Packet("hello", rp_pkt_id, "mem", FALSE, FALSE, 0, 0)
           e == rp_encode_other(q, 20)
<1>1. /\ toQemu' = Append(toQemu, e) /\ rp_pkt_id' = rp_pkt_id + 1
      /\ UNCHANGED <<scenario, toSc, frames, caps, resp, master, wires>>
  BY DEF say_hello
<1>2. q \in Command
  <2>1. rp_pkt_id \in Nat
    BY DEF Typed, TypeOK
  <2>2. "hello" \in Cmds /\ "mem" \in Devs \cup {"qemu"} /\ FALSE \in BOOLEAN
        /\ 0 \in Int
    BY DEF Cmds, Devs
  <2> QED
    BY <2>1, <2>2, PacketType
<1>3. q.cmd = "hello"
  BY DEF Packet
<1> HIDE DEF q
<1>4. e \in FramedCommand /\ ~Asks(e)
  BY <1>2, <1>3, OtherFramed DEF Carries, Asks
<1> HIDE DEF e
<1>5. Flying(resp, toSc, Append(toQemu, e))
  BY <1>4, SlottingTypes, SendsOneQuietly
<1>6. rp_pkt_id + 1 \in Nat /\ rp_pkt_id <= rp_pkt_id + 1
  BY DEF Typed, TypeOK
<1>7. Owned(resp, master, Held, wire_update, rp_pkt_id + 1)
  BY <1>6, SlottingTypes, NumbersGrow
<1>8. Held' = Held /\ SlotsApart'
  BY <1>1 DEF Held, SlotsApart, Waits, Slotting, Slotted
<1>9. Owned(resp, master, Held, wire_update, rp_pkt_id)'
  BY <1>1, <1>7, <1>8 DEF wires
<1>10. Flying(resp, toSc, toQemu)'
  BY <1>1, <1>5, FlyingNext
<1> QED
  BY <1>1, <1>8, <1>9, <1>10 DEF Slotting, Slotted, UpdatesKnown, wires

LEMMA ReturnsSlotting ==
  ASSUME Typed, SlotsApart, phase \notin {"access", "delta"},
         NEW r, Slotful(r), Owned(r, master, Held, wire_update, rp_pkt_id),
         NEW sc, NEW qe, Flying(r, sc, qe), Returns(r)
  PROVE  /\ Owned(resp', master, Held', wire_update, rp_pkt_id)
         /\ SlotsApart' /\ Flying(resp', sc, qe)
<1>1. CASE Listens(r)
  <2>1. frames' = frames /\ resp' = r
    BY <1>1 DEF Listens
  <2>2. Held' = Held /\ SlotsApart'
    BY <2>1 DEF Held, SlotsApart, Waits
  <2> QED
    BY <2>1, <2>2
<1>2. CASE \E i \in Slot : Proceeds(r, i)
  <2>1. PICK i \in Slot : Proceeds(r, i)
    BY <1>2
  <2> DEFINE v == r["mem"][i].val
             F == [Top EXCEPT !.slot = -1, !.val = v]
  <2>2. v \in Int
    <3>1. r["mem"][i] \in SlotState
      BY DEF Slotful, Devs
    <3> QED
      BY <3>1 DEF SlotState
  <2>3. /\ frames # <<>> /\ Freed(r, resp', "mem", i) /\ r["mem"][i].valid
        /\ frames' = Append(Pop, F) /\ r["mem"][i].id = Top.slot
    BY <2>1 DEF Proceeds
  <2> HIDE DEF v
  <2>4. F \in Frame /\ F.slot = -1
    <3>1. -1 \in Int
      OBVIOUS
    <3> QED
      BY <2>2, <2>3, <3>1, Typing DEF Typed
  <2> HIDE DEF F
  <2>5. Top.slot # -1 /\ Top.slot \in Held
    BY <2>3, TopWaits DEF Typed
  <2>6. Held' = Held \ {Top.slot} /\ SlotsApart'
    BY <2>3, <2>4, <2>5, HeldReplaced DEF Typed
  <2>7. Owners(master, Held, wire_update, rp_pkt_id)
    <3>1. \A k \in DOMAIN frames : frames[k] \in Frame
      BY ElementOfSeq, LenProperties DEF Typed, TypeOK
    <3>2. Held \subseteq Int
      BY <3>1 DEF Held, Frame
    <3> QED
      BY <3>2 DEF Typed, TypeOK, Owners
  <2>8. Owned(resp', master, Held \ {r["mem"][i].id}, wire_update, rp_pkt_id)
    BY <2>3, <2>5, <2>7, FrameFrees
  <2>9. Flying(resp', sc, qe)
    BY <2>3, FreedFlying
  <2> QED
    BY <2>3, <2>6, <2>8, <2>9
<1> QED
  BY <1>1, <1>2, ReturnsCases

(* The response has its slot.                                              *)
LEMMA AnswerOwned ==
  ASSUME Typed, Slotting, toSc # <<>>, Head(toSc).response, ~Head(toSc).posted
  PROVE  /\ Slotful(Answered(Head(toSc)))
         /\ \E i \in Slot :
              /\ Filled(resp, Answered(Head(toSc)), Head(toSc).dev, i,
                        Head(toSc).val)
              /\ resp[Head(toSc).dev][i].used
              /\ resp[Head(toSc).dev][i].id = Head(toSc).id
         /\ Owned(Answered(Head(toSc)), master, Held, wire_update, rp_pkt_id)
<1> DEFINE p == Head(toSc)
<1>1. p \in Command /\ p \in Elems(toSc)
  BY Tailed DEF Typed, TypeOK
<1>2. /\ Flying(resp, toSc, toQemu) /\ Slotful(resp) /\ OneEach(resp)
      /\ Owned(resp, master, Held, wire_update, rp_pkt_id)
  BY SlottingTypes
<1>3. Responds(p)
  BY DEF Responds
<1> HIDE DEF p
<1>4. Expected(resp, p.dev, p.id) /\ p.val = Told(p.id)
  BY <1>1, <1>2, <1>3 DEF Flying, AnswersExpected
<1>5. PICK i \in Slot : resp[p.dev][i].used /\ resp[p.dev][i].id = p.id
  BY <1>4 DEF Expected
<1>6. p.dev \in Devs /\ p.val \in Int
  BY <1>1, <1>4 DEF Expected, Command
<1> DEFINE r == Answered(p)
<1>7. Filled(resp, r, p.dev, i, p.val) /\ Slotful(r)
  BY <1>2, <1>5, <1>6, AnswerFills, AnsweredType
<1> HIDE DEF r
<1>8. Owned(r, master, Held, wire_update, rp_pkt_id)
  BY <1>2, <1>4, <1>5, <1>7, FilledOwned
<1> QED
  BY <1>5, <1>7, <1>8 DEF p, r

LEMMA SlottingReceives ==
  ASSUME PortConstants, Typed, Slotting, receives
  PROVE  Slotting'
<1> DEFINE p == Head(toSc)
           t == Tail(toSc)
<1>1. /\ phase = "read" /\ toSc # <<>> /\ toSc' = t
      /\ UNCHANGED <<scenario, rp_pkt_id, master, wires>>
      /\ caps' \in {caps, scenario.caps}
  BY DEF receives
<1>2. p \in Command /\ t \in Seq(Command)
  BY <1>1, Tailed DEF Typed, TypeOK
<1>3. \/ p.response /\ p.posted /\ Returns(resp) /\ toQemu' = toQemu
      \/ p.response /\ ~p.posted /\ Returns(Answered(p)) /\ toQemu' = toQemu
      \/ ~p.response /\ UNCHANGED <<toQemu, frames, resp>>
      \/ /\ ~p.response
         /\ toQemu' = Append(toQemu, rp_encode_other(Answer(p, 0), 8))
         /\ UNCHANGED <<frames, resp>>
      \/ /\ ~p.response
         /\ frames' = Append(frames, [pkt |-> p, slot |-> -1, val |-> 0])
         /\ UNCHANGED <<toQemu, resp>>
  BY DEF receives, Answered, Dropped
<1>4. /\ Sent(toSc, toQemu) /\ Flying(resp, toSc, toQemu)
      /\ Slotful(resp) /\ OneEach(resp) /\ SlotsApart /\ Sent(t, toQemu)
      /\ Owned(resp, master, Held, wire_update, rp_pkt_id)
  BY <1>2, SlottingTypes DEF Sent
<1>5. ~(p.response /\ ~p.posted) => Flying(resp, t, toQemu)
  BY <1>1, <1>4, ReceivesQuietly DEF Responds
<1> SUFFICES /\ Owned(resp', master, Held', wire_update, rp_pkt_id)
             /\ SlotsApart' /\ Flying(resp', t, toQemu')
  <2>1. Flying(resp, toSc, toQemu)'
    BY <1>1, FlyingNext
  <2>2. Owned(resp, master, Held, wire_update, rp_pkt_id)'
    BY <1>1 DEF wires
  <2> QED
    BY <1>1, <2>1, <2>2 DEF Slotting, Slotted, UpdatesKnown, wires
<1>6. CASE p.response /\ p.posted /\ Returns(resp) /\ toQemu' = toQemu
  BY <1>1, <1>4, <1>5, <1>6, ReturnsSlotting
<1>7. CASE p.response /\ ~p.posted /\ Returns(Answered(p)) /\ toQemu' = toQemu
  <2> DEFINE r == Answered(p)
  <2>5. PICK i \in Slot : /\ Filled(resp, r, p.dev, i, p.val) /\ Slotful(r)
                          /\ resp[p.dev][i].used /\ resp[p.dev][i].id = p.id
    BY <1>1, <1>7, AnswerOwned
  <2>6. Owned(r, master, Held, wire_update, rp_pkt_id)
    BY <1>1, <1>7, AnswerOwned
  <2> HIDE DEF r
  <2>7. Flying(r, t, toQemu)
    <3>1. Responds(p)
      BY <1>7 DEF Responds
    <3> QED
      BY <1>1, <1>4, <2>5, <3>1, ResponseFills
  <2>8. Returns(r)
    BY <1>7 DEF r
  <2> QED
    BY <1>1, <1>4, <1>7, <2>5, <2>6, <2>7, <2>8, ReturnsSlotting
<1>8. CASE ~p.response /\ UNCHANGED <<toQemu, frames, resp>>
  BY <1>4, <1>5, <1>8 DEF Held, SlotsApart, Waits
<1>9. CASE /\ ~p.response
           /\ toQemu' = Append(toQemu, rp_encode_other(Answer(p, 0), 8))
           /\ UNCHANGED <<frames, resp>>
  <2> DEFINE a == Answer(p, 0)
             e == rp_encode_other(a, 8)
  <2>1. a \in Command
    BY <1>2, AnswerType
  <2>2. a.response
    BY DEF Answer, Packet
  <2> HIDE DEF a
  <2>3. e \in FramedCommand /\ ~Asks(e)
    BY <2>1, <2>2, OtherFramed DEF Carries, Asks
  <2>4. toQemu' = Append(toQemu, e)
    BY <1>9 DEF a
  <2> HIDE DEF e
  <2>5. Flying(resp, t, toQemu')
    BY <1>4, <1>5, <1>9, <2>3, <2>4, SendsOneQuietly
  <2> QED
    BY <1>4, <1>9, <2>5 DEF Held, SlotsApart, Waits
<1>10. CASE /\ ~p.response
            /\ frames' = Append(frames, [pkt |-> p, slot |-> -1, val |-> 0])
            /\ UNCHANGED <<toQemu, resp>>
  <2> DEFINE F == [pkt |-> p, slot |-> -1, val |-> 0]
  <2>1. F \in Frame /\ F.slot = -1
    BY <1>2 DEF Frame
  <2>2. frames' = Append(frames, F)
    BY <1>10
  <2> HIDE DEF F
  <2>3. Held' = Held /\ SlotsApart'
    BY <1>4, <2>1, <2>2, HeldPushed DEF Typed
  <2> QED
    BY <1>4, <1>5, <1>10, <2>3
<1> QED
  BY <1>3, <1>6, <1>7, <1>8, <1>9, <1>10

LEMMA SlottingAccess ==
  ASSUME PortConstants, Typed, Slotting, access
  PROVE  Slotting'
<1> DEFINE F == [Top EXCEPT !.val = mem]
<1>1. /\ phase = "access" /\ frames' = Append(Pop, F)
      /\ UNCHANGED <<scenario, toSc, toQemu, caps, rp_pkt_id, resp, master,
                     wires>>
  BY DEF access
<1>2. frames # <<>> /\ mem \in Int
  BY <1>1 DEF Typed, Stacked, TypeOK
<1>3. F \in Frame /\ F.slot = Top.slot
  BY <1>2, Typing DEF Typed
<1> HIDE DEF F
<1>4. Held' = Held /\ SlotsApart'
  BY <1>1, <1>2, <1>3, HeldReplaced DEF Typed, Slotting, Slotted
<1>5. Flying(resp, toSc, toQemu)'
  BY <1>1, FlyingNext DEF Slotting
<1>6. Owned(resp, master, Held, wire_update, rp_pkt_id)'
  BY <1>1, <1>4 DEF Slotting, Slotted, wires
<1> QED
  BY <1>1, <1>4, <1>5, <1>6 DEF Slotting, Slotted, UpdatesKnown, wires

LEMMA SlottingReplies ==
  ASSUME PortConstants, Typed, Slotting, replies \/ cmd_interrupt
  PROVE  Slotting'
<1>1. /\ phase \in {"access", "delta"} /\ frames' = Pop
      /\ UNCHANGED <<scenario, toSc, caps, rp_pkt_id, resp, master, wires>>
  BY DEF replies, cmd_interrupt
<1>2. frames # <<>>
  BY <1>1 DEF Typed, Stacked
<1>3. Top.pkt \in Command /\ Top.val \in Int /\ Top.slot = -1
  BY <1>1, <1>2, Typing, TopWaits DEF Typed
<1>4. Held' = Held /\ SlotsApart'
  BY <1>1, <1>2, <1>3, HeldPopped DEF Typed, Slotting, Slotted
<1>5. Flying(resp, toSc, toQemu')
  <2>1. CASE toQemu' = toQemu
    BY <2>1 DEF Slotting
  <2>2. CASE replies /\ toQemu' # toQemu
    <3> DEFINE a == Answer(Top.pkt, Top.val)
               e == rp_encode_busaccess(caps, a, 4, 0)
    <3>1. toQemu' = Append(toQemu, e) /\ Top.pkt.cmd \in {"read", "write"}
      BY <2>2 DEF replies, Typed, Stacked
    <3>2. a \in Command /\ a.cmd = Top.pkt.cmd /\ a.response
      BY <1>3, AnswerType DEF Answer, Packet
    <3> HIDE DEF a
    <3>3. e \in FramedCommand /\ Carries(e, a)
      BY <3>1, <3>2, BusFramed
    <3> HIDE DEF e
    <3>4. ~Asks(e)
      BY <3>2, <3>3 DEF Carries, Asks
    <3> QED
      BY <3>1, <3>3, <3>4, SendsOneQuietly, SlottingTypes
  <2>3. CASE cmd_interrupt /\ toQemu' # toQemu
    <3> DEFINE a == Answer(Top.pkt, 0)
               e == rp_encode_other(a, 21)
    <3>1. toQemu' = Append(toQemu, e)
      BY <2>3 DEF cmd_interrupt
    <3>2. a \in Command /\ a.response
      BY <1>3, AnswerType DEF Answer, Packet
    <3> HIDE DEF a
    <3>3. e \in FramedCommand /\ Carries(e, a)
      BY <3>1, <3>2, OtherFramed
    <3> HIDE DEF e
    <3>4. ~Asks(e)
      BY <3>2, <3>3 DEF Carries, Asks
    <3> QED
      BY <3>1, <3>3, <3>4, SendsOneQuietly, SlottingTypes
  <2> QED
    BY <2>1, <2>2, <2>3
<1>6. Flying(resp, toSc, toQemu)'
  BY <1>1, <1>5, FlyingNext
<1>7. Owned(resp, master, Held, wire_update, rp_pkt_id)'
  BY <1>1, <1>4 DEF Slotting, Slotted, wires
<1> QED
  BY <1>1, <1>4, <1>6, <1>7 DEF Slotting, Slotted, UpdatesKnown, wires

(* A slot that nobody uses.                                                *)
Room(d) == \E i \in Slot : ~resp[d][i].used

LEMMA SlottingForwards ==
  ASSUME PortConstants, Typed, Slotting, forwards,
         ~Top.pkt.posted => Room("mem")
  PROVE  Slotting'
<1> DEFINE p == Top.pkt
           q == Packet(p.cmd, rp_pkt_id, "mem", FALSE, p.posted, 0, p.val)
           e == rp_encode_busaccess(caps, q, 4, 0)
           F == [Top EXCEPT !.slot = rp_pkt_id]
<1>1. /\ phase = "access" /\ p.cmd \in {"read", "write"}
      /\ toQemu' = Append(toQemu, e) /\ rp_pkt_id' = rp_pkt_id + 1
      /\ IF p.posted THEN UNCHANGED <<frames, resp>>
         ELSE /\ resp' = Reserve("mem", rp_pkt_id)
              /\ frames' = Append(Pop, F)
      /\ UNCHANGED <<scenario, toSc, caps, master, wires>>
  BY DEF forwards
<1>2. frames # <<>> /\ rp_pkt_id \in Nat /\ rp_pkt_id \in Int
      /\ rp_pkt_id <= rp_pkt_id + 1 /\ rp_pkt_id + 1 \in Nat
  BY <1>1 DEF Typed, Stacked, TypeOK
<1>3. F \in Frame /\ F.slot = rp_pkt_id /\ p \in Command /\ Top.slot = -1
  BY <1>1, <1>2, Typing, TopWaits DEF Typed
<1>4. p.posted => resp' = resp /\ frames' = frames
  BY <1>1
<1>5. ~p.posted => Room("mem")
  OBVIOUS
<1> HIDE DEF F, p
<1>6. q \in Command
  <2>1. /\ p.cmd \in Cmds /\ p.posted \in BOOLEAN /\ p.val \in Int
        /\ "mem" \in Devs \cup {"qemu"} /\ FALSE \in BOOLEAN /\ 0 \in Int
    BY <1>3 DEF Command, Devs
  <2> QED
    BY <1>2, <2>1, PacketType
<1>7. /\ q.cmd = p.cmd /\ q.id = rp_pkt_id /\ q.dev = "mem" /\ ~q.response
      /\ q.posted = p.posted
  BY DEF Packet
<1> HIDE DEF q
<1>8. e \in FramedCommand /\ Carries(e, q)
  BY <1>1, <1>6, <1>7, BusFramed
<1> HIDE DEF e
<1>9. /\ e.id = rp_pkt_id /\ e.dev = "mem" /\ e.cmd \in {"read", "write"}
      /\ Asks(e) <=> ~p.posted
  BY <1>1, <1>7, <1>8 DEF Carries, Asks
<1>10. CASE p.posted
  <2>1. Flying(resp, toSc, toQemu')
    BY <1>1, <1>8, <1>9, <1>10, SendsOneQuietly, SlottingTypes
  <2>2. Flying(resp, toSc, toQemu)'
    BY <1>1, <1>4, <1>10, <2>1, FlyingNext
  <2>3. Owned(resp, master, Held, wire_update, rp_pkt_id + 1)
    BY <1>2, SlottingTypes, NumbersGrow
  <2>4. Held' = Held /\ SlotsApart'
    BY <1>4, <1>10 DEF Held, SlotsApart, Waits, Slotting, Slotted
  <2>5. Owned(resp, master, Held, wire_update, rp_pkt_id)'
    BY <1>1, <1>4, <1>10, <2>3, <2>4 DEF wires
  <2> QED
    BY <1>1, <2>2, <2>4, <2>5 DEF Slotting, Slotted, UpdatesKnown, wires
<1>11. CASE ~p.posted
  <2>1. /\ resp' = Reserve("mem", rp_pkt_id) /\ frames' = Append(Pop, F)
        /\ Room("mem")
    BY <1>1, <1>5, <1>11
  <2>2. PICK i \in Slot : Taken(resp, resp', "mem", i, rp_pkt_id)
    BY <1>2, <2>1, ReserveTakes, SlottingTypes DEF Room, Devs
  <2>3. Owned(resp', master, Held \cup {rp_pkt_id}, wire_update, rp_pkt_id + 1)
    BY <2>2, SlottingTypes, FrameTakes
  <2>4. /\ ~resp["mem"][i].used /\ ~resp["mem"][i].valid
        /\ \A d \in Devs : \A j \in Slot :
             resp[d][j].used => resp[d][j].id < rp_pkt_id
    BY <2>2, SlottingTypes DEF Taken, Owned, ValuesRight, NumbersOld
  <2>5. Flying(resp', toSc, toQemu')
    BY <1>1, <1>8, <1>9, <1>11, <2>2, <2>4, SlottingTypes, SendsOneAsking
  <2>6. Flying(resp, toSc, toQemu)'
    BY <1>1, <2>5, FlyingNext
  <2>7. rp_pkt_id \notin Held /\ F.slot # -1
    BY <1>2, <1>3 DEF Slotting, Slotted, Owned, NumbersOld
  <2>8. Held' = Held \cup {rp_pkt_id} /\ SlotsApart'
    BY <1>2, <1>3, <2>1, <2>7, HeldReplaced DEF Typed, Slotting, Slotted
  <2>9. Owned(resp, master, Held, wire_update, rp_pkt_id)'
    BY <1>1, <2>3, <2>8 DEF wires
  <2> QED
    BY <1>1, <2>6, <2>8, <2>9 DEF Slotting, Slotted, UpdatesKnown, wires
<1> QED
  BY <1>10, <1>11

LEMMA SlottingTransport ==
  ASSUME PortConstants, Typed, Slotting, NEW m \in Masters, b_transport(m),
         Room("mem")
  PROVE  Slotting'
<1>1. /\ UNCHANGED <<scenario, toSc, frames, caps, wires>>
      /\ master[m].at = "idle"
  BY TransportCases DEF Typed
<1>2. Held' = Held /\ SlotsApart'
  BY <1>1 DEF Held, SlotsApart, Waits, Slotting, Slotted
<1>3. CASE UNCHANGED <<toQemu, rp_pkt_id, resp, master>>
  BY <1>1, <1>3, SlottingSame DEF wires, Slotting, UpdatesKnown
<1>4. ASSUME NEW q \in Command, NEW be \in {0, 4},
             q.cmd \in {"read", "write"}, q.id = rp_pkt_id, q.dev = "mem",
             ~q.response, Transport(m, q, be)
      PROVE  Slotting'
  <2> DEFINE e == rp_encode_busaccess(caps, q, 4, be)
  <2>1. /\ be # 0 => "ext_base" \in caps
        /\ toQemu' = Append(toQemu, e) /\ rp_pkt_id' = rp_pkt_id + 1
    BY <1>4, Enables DEF Transport, Typed
  <2>2. e \in FramedCommand /\ Carries(e, q)
    BY <1>4, <2>1, BusFramed
  <2> HIDE DEF e
  <2>3. /\ e.id = rp_pkt_id /\ e.dev = "mem" /\ e.cmd \in {"read", "write"}
        /\ Asks(e) <=> ~q.posted
    BY <1>4, <2>2 DEF Carries, Asks
  <2>4. rp_pkt_id \in Nat /\ rp_pkt_id <= rp_pkt_id + 1 /\ rp_pkt_id + 1 \in Nat
    BY DEF Typed, TypeOK
  <2>5. CASE q.posted
    <3>1. resp' = resp /\ master' = master
      BY <1>4, <2>5 DEF Transport
    <3>2. Flying(resp, toSc, toQemu')
      BY <2>1, <2>2, <2>3, <2>5, SendsOneQuietly, SlottingTypes
    <3>3. Flying(resp, toSc, toQemu)'
      BY <1>1, <3>1, <3>2, FlyingNext
    <3>4. Owned(resp, master, Held, wire_update, rp_pkt_id + 1)
      BY <2>4, SlottingTypes, NumbersGrow
    <3>5. Owned(resp, master, Held, wire_update, rp_pkt_id)'
      BY <1>1, <1>2, <2>1, <3>1, <3>4 DEF wires
    <3> QED
      BY <1>1, <1>2, <3>3, <3>5 DEF Slotting, Slotted, UpdatesKnown, wires
  <2>6. CASE ~q.posted
    <3> DEFINE y == [at |-> "waits", id |-> rp_pkt_id, val |-> 0]
    <3>1. resp' = Reserve("mem", rp_pkt_id)
          /\ master' = [master EXCEPT ![m] = y]
      BY <1>4, <2>6 DEF Transport
    <3>2. PICK i \in Slot : Taken(resp, resp', "mem", i, rp_pkt_id)
      BY <2>4, <3>1, ReserveTakes, SlottingTypes DEF Room, Devs
    <3>3. y \in Thread
      BY <2>4 DEF Thread
    <3> HIDE DEF y
    <3>4. /\ master' \in [Masters -> Thread] /\ master'[m] = y
          /\ \A l \in Masters : l # m => master'[l] = master[l]
      BY <3>1, <3>3 DEF Typed, TypeOK
    <3>5. Owned(resp', master', Held, wire_update, rp_pkt_id + 1)
      BY <1>1, <3>2, <3>4, SlottingTypes, MasterTakes DEF y
    <3>6. /\ ~resp["mem"][i].used /\ ~resp["mem"][i].valid
          /\ \A d \in Devs : \A j \in Slot :
               resp[d][j].used => resp[d][j].id < rp_pkt_id
      BY <3>2, SlottingTypes DEF Taken, Owned, ValuesRight, NumbersOld
    <3>7. Flying(resp', toSc, toQemu')
      BY <2>1, <2>2, <2>3, <2>6, <3>2, <3>6, SlottingTypes, SendsOneAsking
    <3>8. Flying(resp, toSc, toQemu)'
      BY <1>1, <3>7, FlyingNext
    <3>9. Owned(resp, master, Held, wire_update, rp_pkt_id)'
      BY <1>1, <1>2, <2>1, <3>5 DEF wires
    <3> QED
      BY <1>1, <1>2, <3>8, <3>9 DEF Slotting, Slotted, UpdatesKnown, wires
  <2> QED
    BY <2>5, <2>6
<1> QED
  BY <1>3, <1>4, TransportCases DEF Typed

LEMMA ReadyValue ==
  ASSUME Typed, Slotting, NEW d \in Devs, NEW id, Ready(d, id)
  PROVE  \E i \in Slot : /\ resp[d][i].used /\ resp[d][i].valid
                         /\ resp[d][i].id = id
                         /\ ValueOf(d, id) = Told(id)
                         /\ Freed(resp, response_done(d, id), d, i)
<1>1. PICK i \in response_lookup(d, id) : resp[d][i].valid
  BY DEF Ready
<1>2. i \in Slot /\ resp[d][i].used /\ resp[d][i].id = id
  BY <1>1 DEF response_lookup
<1>3. response_lookup(d, id) = {i}
  BY <1>2, LookupOne, SlottingTypes
<1>4. ValueOf(d, id) = resp[d][i].val
  BY <1>3 DEF ValueOf
<1>5. resp[d][i].val = Told(id)
  BY <1>1, <1>2, SlottingTypes DEF Owned, ValuesRight
<1>6. Freed(resp, response_done(d, id), d, i)
  BY <1>2, DoneFrees, SlottingTypes
<1> QED
  BY <1>1, <1>2, <1>4, <1>5, <1>6

LEMMA SlottingWaits ==
  ASSUME Typed, Slotting, NEW m \in Masters, response_wait(m)
  PROVE  Slotting'
<1> DEFINE v == ValueOf("mem", master[m].id)
           y == [master[m] EXCEPT !.at = "idle", !.val = v]
<1>1. /\ master[m].at = "waits" /\ Ready("mem", master[m].id)
      /\ master' = [master EXCEPT ![m] = y]
      /\ resp' = response_done("mem", master[m].id)
      /\ UNCHANGED <<scenario, toSc, toQemu, frames, caps, rp_pkt_id, wires>>
  BY DEF response_wait
<1>2. PICK i \in Slot : /\ resp["mem"][i].used /\ resp["mem"][i].valid
                        /\ resp["mem"][i].id = master[m].id
                        /\ v = Told(master[m].id)
                        /\ Freed(resp, resp', "mem", i)
  BY <1>1, ReadyValue DEF Devs
<1> HIDE DEF v
<1>3. y \in Thread /\ y.at = "idle" /\ y.id = master[m].id /\ y.val = v
  <2>1. master[m] \in Thread /\ master[m].id \in Nat
    BY DEF Typed, TypeOK, Thread
  <2>2. v \in Int
    BY <1>2, <2>1 DEF Told
  <2> QED
    BY <2>1, <2>2 DEF Thread
<1> HIDE DEF y
<1>4. /\ master' \in [Masters -> Thread] /\ master'[m] = y
      /\ \A l \in Masters : l # m => master'[l] = master[l]
  BY <1>1, <1>3 DEF Typed, TypeOK
<1>5. /\ master'[m].at = "idle" /\ master'[m].id = master[m].id
      /\ master'[m].val = Told(master[m].id)
  BY <1>2, <1>3, <1>4
<1>6. Owned(resp', master', Held, wire_update, rp_pkt_id)
  <2>1. /\ master[m].at = "waits" /\ master[m].id = resp["mem"][i].id
        /\ Freed(resp, resp', "mem", i)
        /\ Owners(master, Held, wire_update, rp_pkt_id)
        /\ Owned(resp, master, Held, wire_update, rp_pkt_id)
    BY <1>1, <1>2, SlottingTypes
  <2>2. \A l \in Masters : l # m => master'[l] = master[l]
    BY <1>4
  <2> QED
    BY <1>4, <1>5, <2>1, <2>2, MasterFrees
<1>7. Flying(resp', toSc, toQemu)
  BY <1>2, SlottingTypes, FreedFlying
<1>8. Flying(resp, toSc, toQemu)'
  BY <1>1, <1>7, FlyingNext
<1>9. Held' = Held /\ SlotsApart'
  BY <1>1 DEF Held, SlotsApart, Waits, Slotting, Slotted
<1>10. Owned(resp, master, Held, wire_update, rp_pkt_id)'
  BY <1>1, <1>6, <1>9 DEF wires
<1> QED
  BY <1>1, <1>8, <1>9, <1>10 DEF Slotting, Slotted, UpdatesKnown, wires

LEMMA SlottingUpdates ==
  ASSUME PortConstants, Typed, Slotting, updates_wires
  PROVE  Slotting'
<1> DEFINE n == Len(Updates(changed))
           s == UpdatePackets
           id == rp_pkt_id + n - 1
<1>1. /\ n \in Nat \ {0} /\ s \in Seq(FramedCommand) /\ Len(s) = n
      /\ DOMAIN s = 1 .. n
      /\ \A k \in 1 .. n :
           /\ s[k].cmd = "interrupt" /\ s[k].id = rp_pkt_id + k - 1
           /\ s[k].dev = "wires" /\ ~s[k].response
           /\ s[k].posted = UpdatePosted(n, k)
      /\ toQemu' = toQemu \o s /\ rp_pkt_id' = rp_pkt_id + n
      /\ wire_update.at = "idle" /\ changed # {} /\ changed' = {}
      /\ UNCHANGED <<scenario, toSc, frames, caps, master>>
  BY UpdatesSent DEF Typed, updates_wires
<1>2. IF "wire_posted_updates" \in caps /\ ~scenario.posted_updates
      THEN /\ resp' = Reserve("wires", id)
           /\ wire_update' = [wire_update EXCEPT !.at = "waits", !.id = id]
      ELSE resp' = resp /\ wire_update' = wire_update
  BY UpdatesSent DEF Typed
<1>3. /\ rp_pkt_id \in Nat /\ id \in Nat /\ rp_pkt_id <= id
      /\ rp_pkt_id + n = id + 1
      /\ rp_pkt_id + n \in Nat /\ rp_pkt_id <= rp_pkt_id + n
  <2>1. n \in Nat \ {0} /\ rp_pkt_id \in Nat
    BY <1>1 DEF Typed, TypeOK
  <2> HIDE DEF n
  <2> QED
    BY <2>1
<1>4. Held' = Held /\ SlotsApart'
  BY <1>1 DEF Held, SlotsApart, Waits, Slotting, Slotted
<1>5. UpdatesKnown' /\ (scenario.posted_updates \/ caps = scenario.caps)
  BY <1>1 DEF UpdatesKnown, Slotting
<1> HIDE DEF n, s
<1>6. CASE "wire_posted_updates" \in caps /\ ~scenario.posted_updates
  <2>1. /\ resp' = Reserve("wires", id)
        /\ wire_update' = [wire_update EXCEPT !.at = "waits", !.id = id]
    BY <1>2, <1>6
  <2>2. \A k \in DOMAIN s : Asks(s[k]) <=> k = Len(s)
    <3> TAKE k \in DOMAIN s
    <3>1. k < n <=> k # n
      BY <1>1
    <3> QED
      BY <1>1, <1>5, <1>6, <3>1 DEF Asks, UpdatePosted
  <2>3. s # <<>> /\ Len(s) \in DOMAIN s
    BY <1>1, EmptySeq
  <2>4. s[Len(s)].dev = "wires" /\ s[Len(s)].id = id
    BY <1>1, <2>3
  <2> HIDE DEF id
  <2>5. Room("wires")
    <3>1. 1 \in Slot
      BY DEF PortConstants, Slot
    <3>2. \A i \in Slot : ~resp["wires"][i].used
      BY <1>1, SlottingTypes DEF Owned, SlotsOwned
    <3> QED
      BY <3>1, <3>2 DEF Room
  <2>6. PICK i \in Slot : Taken(resp, resp', "wires", i, id)
    BY <1>3, <2>1, <2>5, ReserveTakes, SlottingTypes DEF Room, Devs
  <2>7. wire_update'.at = "waits" /\ wire_update'.id = id
    BY <2>1 DEF Typed, TypeOK, Thread
  <2>8. Owned(resp', master, Held, wire_update', id + 1)
    BY <1>1, <1>3, <2>6, <2>7, SlottingTypes, UpdateTakes
  <2>9. /\ ~resp["wires"][i].used /\ ~resp["wires"][i].valid
    BY <2>6, SlottingTypes DEF Taken, Owned, ValuesRight
  <2>10. \A d \in Devs : \A j \in Slot : resp[d][j].used => resp[d][j].id < id
    <3>1. \A d \in Devs : \A j \in Slot :
            resp[d][j].used =>
              resp[d][j].id < rp_pkt_id /\ resp[d][j].id \in Nat
      BY SlottingTypes DEF Owned, NumbersOld, Slotful, SlotState
    <3> QED
      BY <1>3, <3>1
  <2>11. Flying(resp', toSc, toQemu \o s)
    <3>1. /\ Taken(resp, resp', s[Len(s)].dev, i, s[Len(s)].id)
          /\ ~resp[s[Len(s)].dev][i].valid
          /\ \A d \in Devs : \A j \in Slot :
               resp[d][j].used => resp[d][j].id < s[Len(s)].id
      BY <2>4, <2>6, <2>9, <2>10
    <3> QED
      BY <1>1, <2>2, <2>3, <3>1, SlottingTypes, SendsAsking
  <2>12. Flying(resp, toSc, toQemu)'
    BY <1>1, <2>11, FlyingNext
  <2>13. Owned(resp, master, Held, wire_update, rp_pkt_id)'
    BY <1>1, <1>3, <1>4, <2>8
  <2> QED
    BY <1>4, <1>5, <2>12, <2>13 DEF Slotting, Slotted
<1>7. CASE ~("wire_posted_updates" \in caps /\ ~scenario.posted_updates)
  <2>1. resp' = resp /\ wire_update' = wire_update
    BY <1>2, <1>7
  <2>2. \A p \in Elems(s) : ~Asks(p)
    BY <1>1, <1>5, <1>7 DEF Elems, Asks, UpdatePosted
  <2>3. Flying(resp, toSc, toQemu \o s)
    BY <1>1, <2>2, SlottingTypes, SendsQuietly
  <2>4. Flying(resp, toSc, toQemu)'
    BY <1>1, <2>1, <2>3, FlyingNext
  <2>5. Owned(resp, master, Held, wire_update, rp_pkt_id + n)
    BY <1>3, SlottingTypes, NumbersGrow
  <2>6. Owned(resp, master, Held, wire_update, rp_pkt_id)'
    BY <1>1, <1>4, <2>1, <2>5
  <2> QED
    BY <1>4, <1>5, <2>4, <2>6 DEF Slotting, Slotted
<1> QED
  BY <1>6, <1>7

LEMMA SlottingUpdated ==
  ASSUME Typed, Slotting, updated_wires
  PROVE  Slotting'
<1>1. /\ wire_update.at = "waits" /\ Ready("wires", wire_update.id)
      /\ wire_update' = [wire_update EXCEPT !.at = "idle"]
      /\ resp' = response_done("wires", wire_update.id)
      /\ UNCHANGED <<scenario, toSc, toQemu, frames, caps, rp_pkt_id, master,
                     changed>>
  BY DEF updated_wires
<1>2. PICK i \in Slot : /\ resp["wires"][i].used /\ resp["wires"][i].valid
                        /\ resp["wires"][i].id = wire_update.id
                        /\ Freed(resp, resp', "wires", i)
  BY <1>1, ReadyValue DEF Devs
<1>3. wire_update'.at = "idle"
  BY <1>1 DEF Typed, TypeOK, Thread
<1>4. Owned(resp', master, Held, wire_update', rp_pkt_id)
  BY <1>2, <1>3, SlottingTypes, UpdateFrees
<1>5. Flying(resp', toSc, toQemu)
  BY <1>2, SlottingTypes, FreedFlying
<1>6. Flying(resp, toSc, toQemu)'
  BY <1>1, <1>5, FlyingNext
<1>7. Held' = Held /\ SlotsApart'
  BY <1>1 DEF Held, SlotsApart, Waits, Slotting, Slotted
<1>8. Owned(resp, master, Held, wire_update, rp_pkt_id)'
  BY <1>1, <1>4, <1>7
<1> QED
  BY <1>1, <1>6, <1>7, <1>8 DEF Slotting, Slotted, UpdatesKnown

LEMMA SlottingStep ==
  ASSUME PortConstants, Typed, Slotting, [Next]_vars,
         \A m \in Masters : master[m].at = "idle" => Room("mem"),
         phase = "access" /\ Top.pkt.cmd \in {"read", "write"}
           /\ ~Top.pkt.posted => Room("mem")
  PROVE  Slotting'
<1>1. CASE UNCHANGED vars
  BY <1>1, SlottingSame DEF vars, wires, Slotting, UpdatesKnown
<1>2. CASE thread_locks \/ thread_notifies \/ reads \/ resumes
  BY <1>2, SlottingSame DEF thread_locks, thread_notifies, reads, resumes,
                            wires, Slotting, UpdatesKnown
<1>3. ASSUME NEW m \in Masters, b_transport(m) PROVE Slotting'
  <2>1. master[m].at = "idle"
    BY <1>3 DEF b_transport
  <2> QED
    BY <1>3, <2>1, SlottingTransport
<1>4. CASE forwards
  <2>1. phase = "access" /\ Top.pkt.cmd \in {"read", "write"}
    BY <1>4 DEF forwards
  <2> QED
    BY <1>4, <2>1, SlottingForwards
<1>5. ASSUME NEW w \in Wires, wire_changes(w) PROVE Slotting'
  <2>1. /\ UNCHANGED <<scenario, resp, master, frames, wire_update, rp_pkt_id,
                       toSc, toQemu, caps>>
        /\ scenario.posted_updates \/ caps = scenario.caps
    BY <1>5 DEF wire_changes
  <2> QED
    BY <2>1, SlottingSame DEF UpdatesKnown
<1> QED
  BY <1>1, <1>2, <1>3, <1>4, <1>5, SlottingQemuSends, SlottingQemuReceives,
     SlottingHello, SlottingReceives, SlottingAccess, SlottingReplies,
     SlottingWaits, SlottingUpdates, SlottingUpdated DEF Next

-----------------------------------------------------------------------------
(* The requests of QEMU, of which the adaptor has taken the first g.       *)

Matches(p) ==
  /\ p.cmd = program[p.id].cmd /\ p.addr = program[p.id].addr
  /\ p.posted = program[p.id].posted /\ p.val = program[p.id].val

(* The others up to n are in the socket, in order.                         *)
Unread(g, n, sc) ==
  /\ \A i \in DOMAIN sc :
       ~sc[i].response => sc[i].id \in g + 1 .. n /\ Matches(sc[i])
  /\ \A i, j \in DOMAIN sc :
       i < j /\ ~sc[i].response /\ ~sc[j].response => sc[i].id < sc[j].id
  /\ \A k \in g + 1 .. n :
       \E i \in DOMAIN sc : ~sc[i].response /\ sc[i].id = k

LEMMA UnreadSends ==
  ASSUME NEW g \in Nat, NEW n \in Nat, NEW sc \in Seq(Command),
         Unread(g, n, sc),
         NEW e \in Command, ~e.response, e.id = n + 1, Matches(e), g <= n
  PROVE  Unread(g, n + 1, Append(sc, e))
<1> DEFINE t == Append(sc, e)
           m == Len(sc)
<1>1. /\ m \in Nat /\ DOMAIN sc = 1 .. m
      /\ DOMAIN t = (1 .. m) \cup {m + 1}
      /\ \A i \in 1 .. m : t[i] = sc[i]
      /\ t[m + 1] = e
  BY Appended
<1> HIDE DEF t, m
<1>2. \A i \in DOMAIN t : i \in 1 .. m \/ i = m + 1
  BY <1>1
<1>3. \A i \in DOMAIN t :
        ~t[i].response => t[i].id \in g + 1 .. n + 1 /\ Matches(t[i])
  BY <1>1, <1>2 DEF Unread
<1>4. \A i, j \in DOMAIN t :
        i < j /\ ~t[i].response /\ ~t[j].response => t[i].id < t[j].id
  <2> SUFFICES ASSUME NEW i \in DOMAIN t, NEW j \in DOMAIN t, i < j,
                      ~t[i].response, ~t[j].response
               PROVE  t[i].id < t[j].id
    OBVIOUS
  <2>1. i \in 1 .. m
    BY <1>1
  <2>2. t[i] = sc[i] /\ t[i].id \in g + 1 .. n
    BY <1>1, <2>1 DEF Unread
  <2>3. CASE j \in 1 .. m
    BY <1>1, <2>1, <2>3 DEF Unread
  <2>4. CASE j = m + 1
    BY <1>1, <2>2, <2>4
  <2> QED
    BY <1>2, <2>3, <2>4
<1>5. \A k \in g + 1 .. n + 1 :
        \E i \in DOMAIN t : ~t[i].response /\ t[i].id = k
  <2> TAKE k \in g + 1 .. n + 1
  <2>1. CASE k = n + 1
    <3>1. m + 1 \in DOMAIN t
      BY <1>1
    <3> QED
      BY <1>1, <2>1, <3>1
  <2>2. CASE k # n + 1
    <3>1. k \in g + 1 .. n
      BY <2>2
    <3>2. PICK i \in DOMAIN sc : ~sc[i].response /\ sc[i].id = k
      BY <3>1 DEF Unread
    <3>3. i \in DOMAIN t /\ t[i] = sc[i]
      BY <1>1
    <3> QED
      BY <3>2, <3>3
  <2> QED
    BY <2>1, <2>2
<1> QED
  BY <1>3, <1>4, <1>5 DEF Unread, t

LEMMA UnreadAnswer ==
  ASSUME NEW g, NEW n, NEW sc \in Seq(Command), Unread(g, n, sc),
         NEW e \in Command, e.response
  PROVE  Unread(g, n, Append(sc, e))
<1> DEFINE t == Append(sc, e)
           m == Len(sc)
<1>1. /\ m \in Nat /\ DOMAIN sc = 1 .. m
      /\ DOMAIN t = (1 .. m) \cup {m + 1}
      /\ \A i \in 1 .. m : t[i] = sc[i]
      /\ t[m + 1] = e
  BY Appended
<1> HIDE DEF t, m
<1>2. \A i \in DOMAIN t : ~t[i].response => i \in DOMAIN sc /\ t[i] = sc[i]
  BY <1>1
<1>3. \A i \in DOMAIN sc : i \in DOMAIN t /\ t[i] = sc[i]
  BY <1>1
<1>4. /\ \A i \in DOMAIN t :
           ~t[i].response => t[i].id \in g + 1 .. n /\ Matches(t[i])
      /\ \A i, j \in DOMAIN t :
           i < j /\ ~t[i].response /\ ~t[j].response => t[i].id < t[j].id
  BY <1>2 DEF Unread
<1>5. \A k \in g + 1 .. n : \E i \in DOMAIN t : ~t[i].response /\ t[i].id = k
  <2> TAKE k \in g + 1 .. n
  <2>1. PICK i \in DOMAIN sc : ~sc[i].response /\ sc[i].id = k
    BY DEF Unread
  <2> QED
    BY <1>3, <2>1
<1> QED
  BY <1>4, <1>5 DEF Unread, t

LEMMA UnreadTakesAnswer ==
  ASSUME NEW g, NEW n, NEW sc \in Seq(Command), Unread(g, n, sc),
         sc # <<>>, Head(sc).response
  PROVE  Unread(g, n, Tail(sc))
<1> DEFINE t == Tail(sc)
           m == Len(sc)
<1>1. /\ Head(sc) = sc[1] /\ m \in Nat \ {0} /\ DOMAIN sc = 1 .. m
      /\ DOMAIN t = 1 .. m - 1
      /\ \A i \in 1 .. m - 1 : t[i] = sc[i + 1]
  BY Tailed
<1>2. sc[1].response
  BY <1>1
<1> HIDE DEF t, m
<1>3. \A i \in DOMAIN t : i + 1 \in DOMAIN sc /\ t[i] = sc[i + 1]
  BY <1>1
<1>4. \A i \in DOMAIN sc : i # 1 => i - 1 \in DOMAIN t /\ t[i - 1] = sc[i]
  <2> TAKE i \in DOMAIN sc
  <2> HAVE i # 1
  <2>1. i - 1 \in 1 .. m - 1 /\ (i - 1) + 1 = i
    BY <1>1
  <2> QED
    BY <1>1, <2>1
<1>5. \A i, j \in DOMAIN t : i < j => i + 1 < j + 1
  BY <1>1
<1>6. \A i \in DOMAIN t :
        ~t[i].response => t[i].id \in g + 1 .. n /\ Matches(t[i])
  BY <1>3 DEF Unread
<1>7. \A i, j \in DOMAIN t :
        i < j /\ ~t[i].response /\ ~t[j].response => t[i].id < t[j].id
  <2> SUFFICES ASSUME NEW i \in DOMAIN t, NEW j \in DOMAIN t, i < j,
                      ~t[i].response, ~t[j].response
               PROVE  t[i].id < t[j].id
    OBVIOUS
  <2>1. /\ i + 1 \in DOMAIN sc /\ j + 1 \in DOMAIN sc /\ i + 1 < j + 1
        /\ t[i] = sc[i + 1] /\ t[j] = sc[j + 1]
    BY <1>3, <1>5
  <2> QED
    BY <2>1 DEF Unread
<1>8. \A k \in g + 1 .. n : \E i \in DOMAIN t : ~t[i].response /\ t[i].id = k
  <2> TAKE k \in g + 1 .. n
  <2>1. PICK i \in DOMAIN sc : ~sc[i].response /\ sc[i].id = k
    BY DEF Unread
  <2>2. i - 1 \in DOMAIN t /\ t[i - 1] = sc[i]
    BY <1>2, <1>4, <2>1
  <2> QED
    BY <2>1, <2>2
<1> QED
  BY <1>6, <1>7, <1>8 DEF Unread, t

LEMMA UnreadTakes ==
  ASSUME NEW g \in Nat, NEW n \in Nat, NEW sc \in Seq(Command),
         Unread(g, n, sc), sc # <<>>, ~Head(sc).response
  PROVE  /\ g + 1 \in 1 .. n /\ Head(sc).id = g + 1 /\ Matches(Head(sc))
         /\ Unread(g + 1, n, Tail(sc))
<1> DEFINE t == Tail(sc)
           m == Len(sc)
<1>1. /\ Head(sc) = sc[1] /\ m \in Nat \ {0} /\ DOMAIN sc = 1 .. m
      /\ DOMAIN t = 1 .. m - 1
      /\ \A i \in 1 .. m - 1 : t[i] = sc[i + 1]
  BY Tailed
<1>2. ~sc[1].response /\ 1 \in DOMAIN sc
  BY <1>1
<1> HIDE DEF t, m
<1>3. \A i \in DOMAIN t : i + 1 \in DOMAIN sc /\ t[i] = sc[i + 1] /\ 1 < i + 1
  BY <1>1
<1>4. \A i \in DOMAIN sc :
        i # 1 => i - 1 \in DOMAIN t /\ t[i - 1] = sc[i] /\ 1 < i
  <2> TAKE i \in DOMAIN sc
  <2> HAVE i # 1
  <2>1. i - 1 \in 1 .. m - 1 /\ (i - 1) + 1 = i /\ 1 < i
    BY <1>1
  <2> QED
    BY <1>1, <2>1
<1>5. \A i, j \in DOMAIN t : i < j => i + 1 < j + 1
  BY <1>1
<1>6. sc[1].id \in g + 1 .. n /\ Matches(sc[1])
  BY <1>2 DEF Unread
<1>7. g + 1 \in g + 1 .. n
  BY <1>6
<1>8. PICK h \in DOMAIN sc : ~sc[h].response /\ sc[h].id = g + 1
  BY <1>7 DEF Unread
<1>9. sc[1].id = g + 1
  <2>1. h # 1 => sc[1].id < sc[h].id
    BY <1>2, <1>4, <1>8 DEF Unread
  <2> QED
    BY <1>6, <1>8, <2>1
<1>10. \A i \in DOMAIN t : ~t[i].response =>
         t[i].id \in g + 2 .. n /\ Matches(t[i])
  <2> TAKE i \in DOMAIN t
  <2> HAVE ~t[i].response
  <2>1. /\ i + 1 \in DOMAIN sc /\ t[i] = sc[i + 1] /\ 1 < i + 1
    BY <1>3
  <2>2. t[i].id \in g + 1 .. n /\ Matches(t[i]) /\ sc[1].id < t[i].id
    BY <1>2, <2>1 DEF Unread
  <2> QED
    BY <1>9, <2>2
<1>11. \A i, j \in DOMAIN t :
         i < j /\ ~t[i].response /\ ~t[j].response => t[i].id < t[j].id
  <2> SUFFICES ASSUME NEW i \in DOMAIN t, NEW j \in DOMAIN t, i < j,
                      ~t[i].response, ~t[j].response
               PROVE  t[i].id < t[j].id
    OBVIOUS
  <2>1. /\ i + 1 \in DOMAIN sc /\ j + 1 \in DOMAIN sc /\ i + 1 < j + 1
        /\ t[i] = sc[i + 1] /\ t[j] = sc[j + 1]
    BY <1>3, <1>5
  <2> QED
    BY <2>1 DEF Unread
<1>12. \A k \in g + 2 .. n : \E i \in DOMAIN t : ~t[i].response /\ t[i].id = k
  <2> TAKE k \in g + 2 .. n
  <2>1. k \in g + 1 .. n /\ k # g + 1
    OBVIOUS
  <2>2. PICK i \in DOMAIN sc : ~sc[i].response /\ sc[i].id = k
    BY <2>1 DEF Unread
  <2>3. i - 1 \in DOMAIN t /\ t[i - 1] = sc[i]
    BY <1>4, <1>9, <2>1, <2>2
  <2> QED
    BY <2>2, <2>3
<1>13. (g + 1) + 1 = g + 2 /\ g + 1 \in 1 .. n
  BY <1>6
<1> QED
  BY <1>1, <1>6, <1>9, <1>10, <1>11, <1>12, <1>13 DEF Unread, t

-----------------------------------------------------------------------------
(* The answers to the requests: of the packets to QEMU, the answers it has *)
(* got and the requests in the frames.                                     *)

Got(ans, i) == \E k \in DOMAIN ans : ans[k].id = i
Open(qe, ans, i) == ~Got(ans, i) /\ \A p \in Elems(qe) : p.response => p.id # i

Proper(i, v) ==
  /\ Awaited(i)
  /\ program[i].cmd = "read" =>
       IF program[i].addr = Hole THEN v # 0 ELSE v = Written(i)

Replied(g, qe, ans, fs) ==
  /\ \A p \in Elems(qe) : p.response =>
       p.id \in 1 .. g /\ Proper(p.id, p.val) /\ ~Got(ans, p.id)
  /\ \A i, j \in DOMAIN qe :
       qe[i].response /\ qe[j].response /\ qe[i].id = qe[j].id => i = j
  /\ \A a \in Elems(ans) : a.id \in 1 .. g /\ Proper(a.id, a.val)
  /\ \A i, j \in DOMAIN ans : ans[i].id = ans[j].id => i = j
  /\ fs \subseteq 1 .. g /\ \A i \in fs : Open(qe, ans, i)
  /\ \A i \in 1 .. g : Awaited(i) /\ Open(qe, ans, i) => i \in fs

Record == [id: Nat, val: Int]

(* Packets that answer nothing.                                            *)
LEMMA RepliesQuietly ==
  ASSUME NEW g, NEW qe \in Seq(FramedCommand), NEW ans, NEW fs,
         Replied(g, qe, ans, fs),
         NEW s \in Seq(FramedCommand), \A p \in Elems(s) : ~p.response
  PROVE  Replied(g, qe \o s, ans, fs)
<1> DEFINE t == qe \o s
<1>1. /\ Elems(t) = Elems(qe) \cup Elems(s)
      /\ \A i \in DOMAIN t :
           (i \in DOMAIN qe /\ t[i] = qe[i]) \/ t[i] \in Elems(s)
  <2>1. /\ Elems(t) = Elems(qe) \cup Elems(s) /\ DOMAIN qe = 1 .. Len(qe)
        /\ \A i \in 1 .. Len(qe) : t[i] = qe[i]
        /\ \A i \in DOMAIN t : i \notin DOMAIN qe =>
             i - Len(qe) \in DOMAIN s /\ t[i] = s[i - Len(qe)]
    BY Joined
  <2> QED
    BY <2>1 DEF Elems
<1> HIDE DEF t
<1>2. \A i \in DOMAIN t : t[i].response => i \in DOMAIN qe /\ t[i] = qe[i]
  BY <1>1
<1>3. \A i : Open(t, ans, i) <=> Open(qe, ans, i)
  BY <1>1 DEF Open
<1>4. \A p \in Elems(t) : p.response =>
        p.id \in 1 .. g /\ Proper(p.id, p.val) /\ ~Got(ans, p.id)
  BY <1>1 DEF Replied
<1>5. \A i, j \in DOMAIN t :
        t[i].response /\ t[j].response /\ t[i].id = t[j].id => i = j
  BY <1>2 DEF Replied
<1>6. Replied(g, t, ans, fs)
  BY <1>3, <1>4, <1>5 DEF Replied
<1> QED
  BY <1>6 DEF t

(* The answer to an open request.                                          *)
LEMMA RepliesOnce ==
  ASSUME NEW g, NEW qe \in Seq(FramedCommand), NEW ans, NEW fs,
         Replied(g, qe, ans, fs),
         NEW e \in FramedCommand, e.response, e.id \in 1 .. g,
         Proper(e.id, e.val), Open(qe, ans, e.id)
  PROVE  Replied(g, Append(qe, e), ans, fs \ {e.id})
<1> DEFINE t == Append(qe, e)
           n == Len(qe)
<1>1. /\ n \in Nat /\ DOMAIN qe = 1 .. n
      /\ DOMAIN t = (1 .. n) \cup {n + 1}
      /\ \A i \in 1 .. n : t[i] = qe[i]
      /\ t[n + 1] = e /\ Elems(t) = Elems(qe) \cup {e}
  BY Appended
<1> HIDE DEF t, n
<1>2. \A i \in DOMAIN t :
        \/ i \in DOMAIN qe /\ t[i] = qe[i] /\ t[i] \in Elems(qe)
        \/ i = n + 1 /\ t[i] = e
  BY <1>1 DEF Elems
<1>3. \A i : Open(t, ans, i) <=> Open(qe, ans, i) /\ i # e.id
  BY <1>1 DEF Open
<1>4. \A p \in Elems(t) : p.response =>
        p.id \in 1 .. g /\ Proper(p.id, p.val) /\ ~Got(ans, p.id)
  BY <1>1 DEF Replied, Open
<1>5. \A i, j \in DOMAIN t :
        t[i].response /\ t[j].response /\ t[i].id = t[j].id => i = j
  BY <1>2 DEF Replied, Open
<1>6. /\ \A i \in fs \ {e.id} : Open(t, ans, i)
      /\ \A i \in 1 .. g : Awaited(i) /\ Open(t, ans, i) => i \in fs \ {e.id}
      /\ fs \ {e.id} \subseteq 1 .. g
  BY <1>3 DEF Replied
<1>7. Replied(g, t, ans, fs \ {e.id})
  BY <1>4, <1>5, <1>6 DEF Replied
<1> QED
  BY <1>7 DEF t

(* A request that gets no answer leaves.                                   *)
LEMMA RepliesNot ==
  ASSUME NEW g, NEW qe, NEW ans, NEW fs, Replied(g, qe, ans, fs),
         NEW i, ~Awaited(i)
  PROVE  Replied(g, qe, ans, fs \ {i})
BY DEF Replied

LEMMA RepliesTaken ==
  ASSUME NEW g, NEW qe \in Seq(FramedCommand), NEW ans, NEW fs,
         Replied(g, qe, ans, fs), qe # <<>>, ~Head(qe).response
  PROVE  Replied(g, Tail(qe), ans, fs)
<1> DEFINE t == Tail(qe)
           e == Head(qe)
<1>1. /\ DOMAIN qe = 1 .. Len(qe) /\ Len(qe) \in Nat \ {0}
      /\ DOMAIN t = 1 .. Len(qe) - 1
      /\ \A i \in 1 .. Len(qe) - 1 : t[i] = qe[i + 1]
      /\ Elems(qe) = Elems(t) \cup {e}
  BY Tailed
<1> HIDE DEF t, e
<1>2. \A i \in DOMAIN t : i + 1 \in DOMAIN qe /\ t[i] = qe[i + 1]
  BY <1>1
<1>3. \A i, j \in DOMAIN t : i + 1 = j + 1 => i = j
  BY <1>1
<1>4. \A i : Open(t, ans, i) <=> Open(qe, ans, i)
  BY <1>1 DEF Open, e
<1>5. \A p \in Elems(t) : p.response =>
        p.id \in 1 .. g /\ Proper(p.id, p.val) /\ ~Got(ans, p.id)
  BY <1>1 DEF Replied
<1>6. \A i, j \in DOMAIN t :
        t[i].response /\ t[j].response /\ t[i].id = t[j].id => i = j
  <2> SUFFICES ASSUME NEW i \in DOMAIN t, NEW j \in DOMAIN t,
                      t[i].response, t[j].response, t[i].id = t[j].id
               PROVE  i = j
    OBVIOUS
  <2>1. i + 1 = j + 1
    BY <1>2 DEF Replied
  <2> QED
    BY <1>3, <2>1
<1>7. Replied(g, t, ans, fs)
  BY <1>4, <1>5, <1>6 DEF Replied
<1> QED
  BY <1>7 DEF t

LEMMA RepliesGot ==
  ASSUME NEW g, NEW qe \in Seq(FramedCommand), NEW S, NEW ans \in Seq(S),
         NEW fs,
         Replied(g, qe, ans, fs), qe # <<>>, Head(qe).response,
         NEW a \in S, a.id = Head(qe).id, a.val = Head(qe).val
  PROVE  Replied(g, Tail(qe), Append(ans, a), fs)
<1> DEFINE t == Tail(qe)
           e == Head(qe)
           u == Append(ans, a)
           n == Len(ans)
<1>1. /\ DOMAIN qe = 1 .. Len(qe) /\ Len(qe) \in Nat \ {0} /\ e = qe[1]
      /\ DOMAIN t = 1 .. Len(qe) - 1
      /\ \A i \in 1 .. Len(qe) - 1 : t[i] = qe[i + 1]
      /\ Elems(qe) = Elems(t) \cup {e}
  BY Tailed
<1>2. /\ n \in Nat /\ DOMAIN ans = 1 .. n
      /\ DOMAIN u = (1 .. n) \cup {n + 1}
      /\ \A i \in 1 .. n : u[i] = ans[i]
      /\ u[n + 1] = a /\ Elems(u) = Elems(ans) \cup {a}
  BY Appended
<1>3. e.response /\ a.id = e.id /\ a.val = e.val
  OBVIOUS
<1> HIDE DEF t, e, u, n
<1>4. \A i \in DOMAIN t : i + 1 \in DOMAIN qe /\ t[i] = qe[i + 1] /\ i + 1 # 1
  BY <1>1
<1>5. \A i, j \in DOMAIN t : i + 1 = j + 1 => i = j
  BY <1>1
<1>6. 1 \in DOMAIN qe
  BY <1>1
<1>7. \A p \in Elems(t) : p.response => p.id # e.id
  <2> SUFFICES ASSUME NEW i \in DOMAIN t, t[i].response PROVE t[i].id # e.id
    BY DEF Elems
  <2> QED
    BY <1>1, <1>3, <1>4, <1>6 DEF Replied
<1>8. /\ e.id \in 1 .. g /\ Proper(e.id, e.val) /\ ~Got(ans, e.id)
  BY <1>1, <1>3 DEF Replied
<1>9. \A i : Got(u, i) <=> Got(ans, i) \/ i = e.id
  <2>1. \A i : Got(u, i) => Got(ans, i) \/ i = e.id
    BY <1>2, <1>3 DEF Got
  <2>2. \A i : Got(ans, i) => Got(u, i)
    BY <1>2 DEF Got
  <2>3. n + 1 \in DOMAIN u
    BY <1>2
  <2>4. Got(u, e.id)
    BY <1>2, <1>3, <2>3 DEF Got
  <2> QED
    BY <2>1, <2>2, <2>4
<1>10. \A i : Open(t, u, i) <=> Open(qe, ans, i)
  BY <1>1, <1>3, <1>7, <1>9 DEF Open
<1>11. \A p \in Elems(t) : p.response =>
         p.id \in 1 .. g /\ Proper(p.id, p.val) /\ ~Got(u, p.id)
  BY <1>1, <1>7, <1>9 DEF Replied
<1>12. \A i, j \in DOMAIN t :
        t[i].response /\ t[j].response /\ t[i].id = t[j].id => i = j
  <2> SUFFICES ASSUME NEW i \in DOMAIN t, NEW j \in DOMAIN t,
                      t[i].response, t[j].response, t[i].id = t[j].id
               PROVE  i = j
    OBVIOUS
  <2>1. i + 1 = j + 1
    BY <1>4 DEF Replied
  <2> QED
    BY <1>5, <2>1
<1>13. \A b \in Elems(u) : b.id \in 1 .. g /\ Proper(b.id, b.val)
  BY <1>2, <1>3, <1>8 DEF Replied
<1>14. \A i, j \in DOMAIN u : u[i].id = u[j].id => i = j
  <2>1. \A i \in DOMAIN u : \/ /\ i \in DOMAIN ans
                               /\ u[i] = ans[i] /\ u[i].id # e.id
                            \/ i = n + 1 /\ u[i].id = e.id
    BY <1>2, <1>3, <1>8 DEF Got
  <2> QED
    BY <2>1 DEF Replied
<1>15. /\ fs \subseteq 1 .. g /\ \A i \in fs : Open(t, u, i)
       /\ \A i \in 1 .. g : Awaited(i) /\ Open(t, u, i) => i \in fs
  BY <1>10 DEF Replied
<1>16. Replied(g, t, u, fs)
  BY <1>11, <1>12, <1>13, <1>14, <1>15 DEF Replied
<1> QED
  BY <1>16 DEF t, u

(* One more request is taken.                                              *)
LEMMA RepliesMore ==
  ASSUME NEW g \in Nat, NEW qe, NEW ans, NEW fs, Replied(g, qe, ans, fs)
  PROVE  /\ Replied(g + 1, qe, ans, fs \cup {g + 1})
         /\ ~Awaited(g + 1) => Replied(g + 1, qe, ans, fs)
         /\ (fs \cup {g + 1}) \ {g + 1} = fs
         /\ Open(qe, ans, g + 1)
<1>1. 1 .. g + 1 = (1 .. g) \cup {g + 1} /\ g + 1 \notin 1 .. g
  OBVIOUS
<1> DEFINE h == g + 1
           G == 1 .. g
           H == 1 .. h
<1>2. H = G \cup {h} /\ h \notin G
  BY <1>1
<1>3. \A i, j \in DOMAIN ans : ans[i].id = ans[j].id => i = j
  BY DEF Replied
<1> HIDE DEF h, H
<1>4. /\ \A p \in Elems(qe) : p.response =>
           p.id \in G /\ Proper(p.id, p.val) /\ ~Got(ans, p.id)
      /\ \A a \in Elems(ans) : a.id \in G /\ Proper(a.id, a.val)
      /\ fs \subseteq G
  BY DEF Replied
<1>5. Open(qe, ans, h)
  <2>1. ~Got(ans, h)
    BY <1>2, <1>4 DEF Got, Elems
  <2> QED
    BY <1>2, <1>4, <2>1 DEF Open
<1> DEFINE T == fs \cup {h}
<1>6. /\ \A i \in T : Open(qe, ans, i)
      /\ \A i \in H : Awaited(i) /\ Open(qe, ans, i) => i \in T
      /\ ~Awaited(h) =>
           \A i \in H : Awaited(i) /\ Open(qe, ans, i) => i \in fs
      /\ T \subseteq H /\ fs \subseteq H /\ T \ {h} = fs
  BY <1>2, <1>4, <1>5 DEF Replied
<1> HIDE DEF T, G
<1>7. /\ \A p \in Elems(qe) : p.response =>
           p.id \in H /\ Proper(p.id, p.val) /\ ~Got(ans, p.id)
      /\ \A a \in Elems(ans) : a.id \in H /\ Proper(a.id, a.val)
  BY <1>2, <1>4
<1>8. \A i, j \in DOMAIN qe :
        qe[i].response /\ qe[j].response /\ qe[i].id = qe[j].id => i = j
  BY DEF Replied
<1>9. Replied(h, qe, ans, T) /\ (~Awaited(h) => Replied(h, qe, ans, fs))
  BY <1>3, <1>6, <1>7, <1>8 DEF Replied, H
<1> QED
  BY <1>5, <1>6, <1>9 DEF h, T

-----------------------------------------------------------------------------
(* What the writes and the interrupts before a request have left.          *)

(* The level of the wires of QEMU after the interrupts before i.           *)
Interrupts(i) == {j \in 1 .. i - 1 : program[j].cmd = "interrupt"}
Raised(i) ==
  IF Interrupts(i) = {} THEN 0
  ELSE program[CHOOSE j \in Interrupts(i) : \A k \in Interrupts(i) : k <= j].val

LEMMA LastOne ==
  ASSUME NEW i \in Nat \ {0}, NEW P, P \subseteq 1 .. i, i \in P
  PROVE  (CHOOSE j \in P : \A k \in P : k <= j) = i
<1>1. \A k \in P : k \in Int /\ k <= i
  OBVIOUS
<1>2. \A j \in P : (\A k \in P : k <= j) => j = i
  BY <1>1
<1>3. \E j \in P : \A k \in P : k <= j
  BY <1>1
<1> DEFINE x == CHOOSE j \in P : \A k \in P : k <= j
<1>4. x \in P /\ \A k \in P : k <= x
  BY <1>3
<1> HIDE DEF x
<1>5. x = i
  BY <1>2, <1>4
<1> QED
  BY <1>5 DEF x

LEMMA WrittenStep ==
  ASSUME NEW i \in Nat \ {0}
  PROVE  Written(i + 1) = IF program[i].cmd = "write" /\ program[i].addr # Hole
                          THEN program[i].val ELSE Written(i)
<1> DEFINE P == {j \in 1 .. (i + 1) - 1 :
                   program[j].cmd = "write" /\ program[j].addr # Hole}
           Q == {j \in 1 .. i - 1 :
                   program[j].cmd = "write" /\ program[j].addr # Hole}
           last(S) == CHOOSE j \in S : \A k \in S : k <= j
<1>1. /\ Written(i + 1) = IF P = {} THEN 0 ELSE program[last(P)].val
      /\ Written(i) = IF Q = {} THEN 0 ELSE program[last(Q)].val
  BY DEF Written
<1>2. CASE program[i].cmd = "write" /\ program[i].addr # Hole
  <2>1. P \subseteq 1 .. i /\ i \in P
    BY <1>2
  <2>2. last(P) = i
    <3> HIDE DEF P
    <3> QED
      BY <2>1, LastOne
  <2> HIDE DEF P, Q, last
  <2> QED
    BY <1>1, <1>2, <2>1, <2>2
<1>3. CASE ~(program[i].cmd = "write" /\ program[i].addr # Hole)
  <2>1. P = Q
    <3>1. \A j \in 1 .. i : j # i => j \in 1 .. i - 1
      OBVIOUS
    <3>2. (i + 1) - 1 = i /\ 1 .. i - 1 \subseteq 1 .. i
      OBVIOUS
    <3> QED
      BY <1>3, <3>1, <3>2
  <2> HIDE DEF P, Q, last
  <2> QED
    BY <1>1, <1>3, <2>1
<1> QED
  BY <1>2, <1>3

LEMMA RaisedStep ==
  ASSUME NEW i \in Nat \ {0}
  PROVE  Raised(i + 1) = IF program[i].cmd = "interrupt"
                         THEN program[i].val ELSE Raised(i)
<1> DEFINE P == Interrupts(i + 1)
           Q == Interrupts(i)
           last(S) == CHOOSE j \in S : \A k \in S : k <= j
<1>1. /\ Raised(i + 1) = IF P = {} THEN 0 ELSE program[last(P)].val
      /\ Raised(i) = IF Q = {} THEN 0 ELSE program[last(Q)].val
  BY DEF Raised
<1>2. CASE program[i].cmd = "interrupt"
  <2>1. P \subseteq 1 .. i /\ i \in P
    BY <1>2 DEF Interrupts
  <2>2. last(P) = i
    <3> HIDE DEF P
    <3> QED
      BY <2>1, LastOne
  <2> HIDE DEF P, Q, last
  <2> QED
    BY <1>1, <1>2, <2>1, <2>2
<1>3. CASE ~(program[i].cmd = "interrupt")
  <2>1. P = Q
    <3>1. \A j \in 1 .. i : j # i => j \in 1 .. i - 1
      OBVIOUS
    <3>2. (i + 1) - 1 = i /\ 1 .. i - 1 \subseteq 1 .. i
      OBVIOUS
    <3> QED
      BY <1>3, <3>1, <3>2 DEF Interrupts
  <2> HIDE DEF P, Q, last
  <2> QED
    BY <1>1, <1>3, <2>1
<1> QED
  BY <1>2, <1>3

(* Nothing of this changes while the scenario does not.                    *)
LEMMA ProgramNext ==
  ASSUME scenario' = scenario
  PROVE  /\ program' = program
         /\ \A p : Matches(p)' <=> Matches(p)
         /\ \A i : Written(i)' = Written(i)
         /\ \A i : Raised(i)' = Raised(i)
         /\ caps' = caps => \A i : Awaited(i)' <=> Awaited(i)
<1>1. program' = program
  BY DEF program
<1>2. \A p : Matches(p)' <=> Matches(p)
  BY <1>1 DEF Matches
<1>3. \A i : Written(i)' = Written(i)
  BY <1>1 DEF Written
<1>4. \A i : Raised(i)' = Raised(i)
  BY <1>1 DEF Raised, Interrupts
<1>5. caps' = caps => \A i : Awaited(i)' <=> Awaited(i)
  BY <1>1 DEF Awaited
<1> QED
  BY <1>1, <1>2, <1>3, <1>4, <1>5

-----------------------------------------------------------------------------
(* The requests in the frames.                                             *)

Ids(fr) == {fr[k].pkt.id : k \in DOMAIN fr}
Requests(fr) ==
  /\ \A k \in DOMAIN fr : Matches(fr[k].pkt)
  /\ \A k, l \in DOMAIN fr : fr[k].pkt.id = fr[l].pkt.id => k = l

LEMMA RequestsReplaced ==
  ASSUME NEW fr \in Seq(Frame), fr # <<>>, Requests(fr),
         NEW F \in Frame, F.pkt = fr[Len(fr)].pkt
  PROVE  /\ Requests(Append(SubSeq(fr, 1, Len(fr) - 1), F))
         /\ Ids(Append(SubSeq(fr, 1, Len(fr) - 1), F)) = Ids(fr)
<1> DEFINE t == Append(SubSeq(fr, 1, Len(fr) - 1), F)
           n == Len(fr)
<1>1. /\ DOMAIN fr = 1 .. n /\ DOMAIN t = 1 .. n
      /\ \A k \in 1 .. n : t[k] = IF k = n THEN F ELSE fr[k]
  BY Replaced
<1> HIDE DEF t
<1>2. DOMAIN t = DOMAIN fr /\ \A k \in DOMAIN t : t[k].pkt = fr[k].pkt
  BY <1>1
<1>3. Ids(t) = Ids(fr) /\ Requests(t)
  BY <1>2 DEF Ids, Requests
<1> QED
  BY <1>3 DEF t

LEMMA RequestsPushed ==
  ASSUME NEW fr \in Seq(Frame), Requests(fr),
         NEW F \in Frame, Matches(F.pkt), F.pkt.id \notin Ids(fr)
  PROVE  /\ Requests(Append(fr, F))
         /\ Ids(Append(fr, F)) = Ids(fr) \cup {F.pkt.id}
<1> DEFINE t == Append(fr, F)
           n == Len(fr)
<1>1. /\ n \in Nat /\ DOMAIN fr = 1 .. n
      /\ DOMAIN t = (1 .. n) \cup {n + 1}
      /\ \A k \in 1 .. n : t[k] = fr[k]
      /\ t[n + 1] = F
  BY Appended
<1> HIDE DEF t, n
<1>2. \A k \in DOMAIN t :
        \/ k \in DOMAIN fr /\ t[k] = fr[k] /\ t[k].pkt.id \in Ids(fr)
        \/ k = n + 1 /\ t[k] = F
  BY <1>1 DEF Ids
<1>3. \A k \in DOMAIN fr : k \in DOMAIN t /\ t[k] = fr[k]
  BY <1>1
<1>4. n + 1 \in DOMAIN t /\ t[n + 1] = F
  BY <1>1
<1>5. Requests(t)
  BY <1>2 DEF Requests
<1>6. Ids(t) = Ids(fr) \cup {F.pkt.id}
  <2>1. \A x : x \in Ids(t) => x \in Ids(fr) \cup {F.pkt.id}
    <3> TAKE x
    <3> HAVE x \in Ids(t)
    <3>1. PICK k \in DOMAIN t : t[k].pkt.id = x
      BY DEF Ids
    <3> QED
      BY <1>2, <3>1
  <2>2. \A x : x \in Ids(fr) => x \in Ids(t)
    <3> TAKE x
    <3> HAVE x \in Ids(fr)
    <3>1. PICK k \in DOMAIN fr : fr[k].pkt.id = x
      BY DEF Ids
    <3> QED
      BY <1>3, <3>1 DEF Ids
  <2>3. F.pkt.id \in Ids(t)
    BY <1>4 DEF Ids
  <2> HIDE DEF Ids
  <2> QED
    BY <2>1, <2>2, <2>3
<1> QED
  BY <1>5, <1>6 DEF t

LEMMA RequestsPopped ==
  ASSUME NEW fr \in Seq(Frame), fr # <<>>, Requests(fr)
  PROVE  /\ Requests(SubSeq(fr, 1, Len(fr) - 1))
         /\ Ids(SubSeq(fr, 1, Len(fr) - 1)) = Ids(fr) \ {fr[Len(fr)].pkt.id}
         /\ fr[Len(fr)].pkt.id \in Ids(fr) /\ Matches(fr[Len(fr)].pkt)
<1> DEFINE t == SubSeq(fr, 1, Len(fr) - 1)
           n == Len(fr)
<1>1. /\ n \in Nat \ {0} /\ DOMAIN fr = 1 .. n
      /\ DOMAIN t = 1 .. n - 1
      /\ \A k \in 1 .. n - 1 : t[k] = fr[k]
  BY Popped
<1>2. n \in DOMAIN fr
  <2>1. n \in Nat \ {0} /\ DOMAIN fr = 1 .. n
    BY <1>1
  <2> QED
    BY ONLY <2>1
<1> HIDE DEF t, n
<1>3. \A k \in DOMAIN t : k \in DOMAIN fr /\ t[k] = fr[k] /\ k # n
  BY <1>1
<1>4. \A k \in DOMAIN fr : k = n \/ (k \in DOMAIN t /\ t[k] = fr[k])
  BY <1>1
<1>5. Requests(t)
  BY <1>3 DEF Requests
<1>6. \A x : x \in Ids(t) <=> x \in Ids(fr) /\ x # fr[n].pkt.id
  <2>1. \A x : x \in Ids(t) => x \in Ids(fr) /\ x # fr[n].pkt.id
    <3> TAKE x
    <3> HAVE x \in Ids(t)
    <3>1. PICK k \in DOMAIN t : t[k].pkt.id = x
      BY DEF Ids
    <3>2. k \in DOMAIN fr /\ fr[k].pkt.id = x /\ k # n
      BY <1>3, <3>1
    <3> QED
      BY <1>2, <3>2 DEF Ids, Requests
  <2>2. \A x : x \in Ids(fr) /\ x # fr[n].pkt.id => x \in Ids(t)
    <3> TAKE x
    <3> HAVE x \in Ids(fr) /\ x # fr[n].pkt.id
    <3>1. PICK k \in DOMAIN fr : fr[k].pkt.id = x
      BY DEF Ids
    <3>2. k # n
      BY <3>1
    <3>3. k \in DOMAIN t /\ t[k].pkt.id = x
      BY <1>4, <3>1, <3>2
    <3> QED
      BY <3>3 DEF Ids
  <2> QED
    BY <2>1, <2>2
<1>7. fr[n].pkt.id \in Ids(fr) /\ Matches(fr[n].pkt)
  BY <1>2 DEF Ids, Requests
<1>8. Ids(t) = Ids(fr) \ {fr[n].pkt.id}
  <2> HIDE DEF Ids
  <2> QED
    BY <1>6
<1> QED
  BY <1>5, <1>7, <1>8 DEF t, n

-----------------------------------------------------------------------------
(* Every step serves the requests in order.                                *)

(* Of the request g, the last one taken: what it has to find and to leave, *)
(* and the value that a read in the frame on top has found.                *)
Current(g, ph, fr, m, o) ==
  /\ m = Written(IF ph = "access" THEN g ELSE g + 1)
  /\ o = Raised(IF ph = "access" THEN g ELSE g + 1)
  /\ ph = "access" => fr[Len(fr)].pkt.id = g
  /\ ph = "delta" /\ fr[Len(fr)].pkt.cmd = "read" =>
       IF fr[Len(fr)].pkt.addr = Hole THEN fr[Len(fr)].val # 0
       ELSE fr[Len(fr)].val = Written(fr[Len(fr)].pkt.id)

Known(g) == caps = IF g = 0 THEN {} ELSE scenario.caps

Served(g) ==
  /\ Known(g) /\ Unread(g, sent, toSc) /\ Requests(frames)
  /\ Replied(g, toQemu, answers, Ids(frames))
  /\ Current(g, phase, frames, mem, out)

Serving == \E g \in 0 .. sent : Served(g)

LEMMA InitServing ==
  ASSUME Init
  PROVE  Serving
<1>1. /\ sent = 0 /\ answers = <<>> /\ toSc = <<>> /\ toQemu = <<>>
      /\ phase = "reset" /\ frames = <<>> /\ caps = {} /\ mem = 0 /\ out = 0
  BY DEF Init
<1>2. Written(1) = 0 /\ Raised(1) = 0
  <2>1. 1 .. 1 - 1 = {}
    OBVIOUS
  <2> QED
    BY <2>1 DEF Written, Raised, Interrupts
<1>3. Elems(toQemu) = {} /\ Elems(answers) = {} /\ Ids(frames) = {}
  BY <1>1 DEF Elems, Ids
<1>4. Replied(0, toQemu, answers, Ids(frames))
  BY <1>1, <1>3 DEF Replied
<1>5. Unread(0, sent, toSc) /\ Requests(frames) /\ Known(0)
  BY <1>1 DEF Unread, Requests, Known
<1>6. Current(0, phase, frames, mem, out)
  BY <1>1, <1>2 DEF Current
<1> QED
  BY <1>1, <1>4, <1>5, <1>6 DEF Serving, Served

LEMMA ServedNext ==
  ASSUME scenario' = scenario, caps' = caps, NEW g \in 0 .. sent', Known(g),
         Unread(g, sent', toSc'), Requests(frames'),
         Replied(g, toQemu', answers', Ids(frames')),
         Current(g, phase', frames', mem', out')
  PROVE  Serving'
<1>1. /\ program' = program
      /\ \A p : Matches(p)' <=> Matches(p)
      /\ \A i : Written(i)' = Written(i)
      /\ \A i : Raised(i)' = Raised(i)
      /\ \A i : Awaited(i)' <=> Awaited(i)
  BY ProgramNext
<1>2. \A i, v : Proper(i, v)' <=> Proper(i, v)
  BY <1>1 DEF Proper
<1>3. Known(g)'
  BY DEF Known
<1>4. Unread(g, sent, toSc)'
  BY <1>1 DEF Unread
<1>5. Requests(frames)'
  BY <1>1 DEF Requests
<1>6. Replied(g, toQemu, answers, Ids(frames))'
  BY <1>1, <1>2 DEF Replied, Open, Got, Elems, Ids
<1>7. Current(g, phase, frames, mem, out)'
  BY <1>1 DEF Current
<1>8. Served(g)'
  BY <1>3, <1>4, <1>5, <1>6, <1>7 DEF Served
<1> QED
  BY <1>8 DEF Serving

(* Nothing but requests to QEMU is sent.                                   *)
Quietly(qe, s) ==
  s = qe \/ \E t \in Seq(FramedCommand) :
              s = qe \o t /\ \A p \in Elems(t) : ~p.response

LEMMA ServingSame ==
  ASSUME Typed, Serving,
         UNCHANGED <<scenario, caps, sent, answers, toSc, frames, mem, out>>,
         Quietly(toQemu, toQemu'),
         phase' = phase \/ {phase, phase'} \cap {"access", "delta"} = {}
  PROVE  Serving'
<1>1. PICK g \in 0 .. sent : Served(g)
  BY DEF Serving
<1>2. Replied(g, toQemu', answers', Ids(frames'))
  <2>1. /\ toQemu \in Seq(FramedCommand)
        /\ Replied(g, toQemu, answers, Ids(frames))
    BY <1>1 DEF Served, Typed, TypeOK
  <2>2. CASE toQemu' = toQemu
    BY <2>1, <2>2
  <2>3. CASE toQemu' # toQemu
    <3>1. PICK t \in Seq(FramedCommand) :
            toQemu' = toQemu \o t /\ \A p \in Elems(t) : ~p.response
      BY <2>3 DEF Quietly
    <3>2. Replied(g, toQemu \o t, answers, Ids(frames))
      BY <2>1, <3>1, RepliesQuietly
    <3> QED
      BY <3>1, <3>2
  <2> QED
    BY <2>2, <2>3
<1>3. Current(g, phase', frames', mem', out')
  BY <1>1 DEF Served, Current
<1> QED
  BY <1>1, <1>2, <1>3, ServedNext DEF Served

LEMMA ServingQemuSends ==
  ASSUME PortConstants, Typed, Serving, qemu_sends
  PROVE  Serving'
<1> DEFINE c == program[sent + 1]
           e == Packet(c.cmd, sent + 1, "qemu", FALSE, c.posted, c.addr, c.val)
<1>1. /\ sent < Len(program) /\ sent' = sent + 1 /\ toSc' = Append(toSc, e)
      /\ UNCHANGED <<scenario, answers, toQemu, phase, frames, caps, mem, out>>
  BY DEF qemu_sends
<1>2. PICK g \in 0 .. sent : Served(g)
  BY DEF Serving
<1>3. sent \in Nat /\ sent + 1 \in 1 .. Len(program) /\ toSc \in Seq(Command)
  <2>1. sent \in 0 .. Len(program) /\ Len(program) \in Nat
    BY ScenarioType DEF Typed, TypeOK
  <2> QED
    BY <1>1, <2>1 DEF Typed, TypeOK
<1>4. c \in [cmd: Cmds, addr: Int, posted: BOOLEAN, val: Int]
  BY <1>3, ScenarioType DEF Typed, TypeOK
<1>5. e \in Command
  <2>1. /\ c.cmd \in Cmds /\ c.addr \in Int /\ c.posted \in BOOLEAN
        /\ c.val \in Int
    BY <1>4
  <2>2. "qemu" \in Devs \cup {"qemu"} /\ FALSE \in BOOLEAN /\ sent + 1 \in Nat
    BY <1>3
  <2> HIDE DEF c
  <2> QED
    BY <2>1, <2>2, PacketType
<1>6. ~e.response /\ e.id = sent + 1 /\ Matches(e)
  BY DEF Packet, Matches
<1> HIDE DEF e, c
<1>7. Unread(g, sent + 1, toSc')
  <2>1. g \in Nat /\ g <= sent
    BY <1>3
  <2>2. Unread(g, sent, toSc)
    BY <1>2 DEF Served
  <2> QED
    BY <1>1, <1>3, <1>5, <1>6, <2>1, <2>2, UnreadSends
<1>8. g \in 0 .. sent'
  BY <1>1, <1>3
<1> QED
  BY <1>1, <1>2, <1>7, <1>8, ServedNext DEF Served

LEMMA ServingQemuReceives ==
  ASSUME Typed, Serving, qemu_receives
  PROVE  Serving'
<1> DEFINE p == Head(toQemu)
           a == [id |-> p.id, val |-> p.val]
           x == Answer(p, Told(p.id))
<1>1. /\ toQemu # <<>> /\ toQemu' = Tail(toQemu)
      /\ answers' = IF p.response THEN Append(answers, a) ELSE answers
      /\ toSc' = toSc \/ toSc' = Append(toSc, x)
      /\ UNCHANGED <<scenario, sent, phase, frames, caps, mem, out>>
  BY DEF qemu_receives
<1>2. PICK g \in 0 .. sent : Served(g)
  BY DEF Serving
<1>3. p \in FramedCommand /\ toQemu \in Seq(FramedCommand)
      /\ toSc \in Seq(Command)
  BY <1>1, Tailed DEF Typed, TypeOK
<1>4. a \in Record /\ a.id = p.id /\ a.val = p.val /\ answers \in Seq(Record)
  <2>1. p.id \in Nat /\ p.val \in Int
    BY <1>3 DEF FramedCommand
  <2> HIDE DEF p
  <2> QED
    BY <2>1 DEF Record, Typed, TypeOK
<1>5. x \in Command /\ x.response
  <2>1. Told(p.id) \in Int
    BY <1>3 DEF Told, FramedCommand
  <2> HIDE DEF p
  <2> QED
    BY <1>3, <2>1, AnswerType
<1> HIDE DEF a, x
<1>6. Replied(g, Tail(toQemu), answers', Ids(frames))
  <2>1. Replied(g, toQemu, answers, Ids(frames))
    BY <1>2 DEF Served
  <2>2. CASE p.response
    BY <1>1, <1>3, <1>4, <2>1, <2>2, RepliesGot
  <2>3. CASE ~p.response
    BY <1>1, <1>3, <2>1, <2>3, RepliesTaken
  <2> QED
    BY <2>2, <2>3
<1>7. Unread(g, sent, toSc')
  <2>1. Unread(g, sent, toSc)
    BY <1>2 DEF Served
  <2> QED
    BY <1>1, <1>3, <1>5, <2>1, UnreadAnswer
<1> QED
  BY <1>1, <1>2, <1>6, <1>7, ServedNext DEF Served

LEMMA ServingHello ==
  ASSUME Typed, Serving, say_hello
  PROVE  Serving'
<1> DEFINE q == Packet("hello", rp_pkt_id, "mem", FALSE, FALSE, 0, 0)
           e == rp_encode_other(q, 20)
<1>1. /\ toQemu' = Append(toQemu, e) /\ phase = "reset" /\ phase' = "listen"
      /\ UNCHANGED <<scenario, qemu, toSc, frames, caps, mem, out>>
  BY DEF say_hello
<1>2. q \in Command
  <2>1. rp_pkt_id \in Nat
    BY DEF Typed, TypeOK
  <2>2. "hello" \in Cmds /\ "mem" \in Devs \cup {"qemu"} /\ FALSE \in BOOLEAN
        /\ 0 \in Int
    BY DEF Cmds, Devs
  <2> QED
    BY <2>1, <2>2, PacketType
<1>3. ~q.response
  BY DEF Packet
<1> HIDE DEF q
<1>4. e \in FramedCommand /\ ~e.response
  BY <1>2, <1>3, OtherFramed DEF Carries
<1> HIDE DEF e
<1>5. Quietly(toQemu, toQemu')
  <2>1. toQemu' = toQemu \o <<e>> /\ <<e>> \in Seq(FramedCommand)
        /\ Elems(<<e>>) = {e}
    BY <1>1, <1>4, OneSent DEF Typed, TypeOK
  <2> QED
    BY <1>4, <2>1 DEF Quietly
<1> QED
  BY <1>1, <1>5, ServingSame DEF qemu

(* rp_process returns, and a read on top has found what QEMU told.         *)
LEMMA ReturnsCurrent ==
  ASSUME Typed, phase = "read", NEW r, Slotful(r), ValuesRight(r, master),
         Returns(r), NEW g, Requests(frames),
         Current(g, phase, frames, mem, out)
  PROVE  /\ Requests(frames') /\ Ids(frames') = Ids(frames)
         /\ Current(g, phase', frames', mem, out)
<1>1. CASE Listens(r)
  BY <1>1 DEF Listens, Current
<1>2. CASE \E i \in Slot : Proceeds(r, i)
  <2>1. PICK i \in Slot : Proceeds(r, i)
    BY <1>2
  <2> DEFINE v == r["mem"][i].val
             F == [Top EXCEPT !.slot = -1, !.val = v]
  <2>2. v \in Int /\ v # 0
    <3>1. r["mem"][i] \in SlotState
      BY DEF Slotful, Devs
    <3>2. v = Told(r["mem"][i].id)
      BY <2>1 DEF Proceeds, ValuesRight, Devs
    <3> QED
      BY <3>1, <3>2 DEF SlotState, Told
  <2>3. frames # <<>> /\ phase' = "delta" /\ frames' = Append(Pop, F)
    BY <2>1 DEF Proceeds
  <2> HIDE DEF v
  <2>4. F \in Frame /\ F.pkt = Top.pkt /\ F.val = v
    <3>1. -1 \in Int
      OBVIOUS
    <3> QED
      BY <2>2, <2>3, <3>1, Typing DEF Typed
  <2> HIDE DEF F
  <2>5. /\ Len(frames) \in Nat \ {0} /\ DOMAIN frames = 1 .. Len(frames)
        /\ Len(frames') = Len(frames)
        /\ \A k \in 1 .. Len(frames) :
             frames'[k] = IF k = Len(frames) THEN F ELSE frames[k]
        /\ Top = frames[Len(frames)] /\ frames \in Seq(Frame)
    BY <2>3, <2>4, Stack DEF Typed, TypeOK
  <2>6. Len(frames) \in 1 .. Len(frames)
    <3>1. Len(frames) \in Nat \ {0}
      BY <2>5
    <3> QED
      BY ONLY <3>1
  <2>7. frames'[Len(frames')] = F
    BY <2>5, <2>6
  <2>8. F.pkt.addr = Hole
    <3>1. Top.slot # -1
      BY <2>3, TopWaits DEF Typed
    <3> QED
      BY <2>4, <2>5, <2>6, <3>1 DEF Typed, Stacked, Waits
  <2>9. Requests(frames') /\ Ids(frames') = Ids(frames)
    BY <2>3, <2>4, <2>5, RequestsReplaced DEF Pop
  <2>10. Current(g, phase', frames', mem, out)
    BY <2>2, <2>3, <2>4, <2>7, <2>8 DEF Current
  <2> QED
    BY <2>9, <2>10
<1> QED
  BY <1>1, <1>2, ReturnsCases

LEMMA ServingResponse ==
  ASSUME Typed, Slotting, Serving, receives, Head(toSc).response
  PROVE  Serving'
<1> DEFINE p == Head(toSc)
<1>1. /\ phase = "read" /\ toSc # <<>> /\ toSc' = Tail(toSc)
      /\ UNCHANGED <<scenario, sent, answers, mem, out, toQemu, caps>>
      /\ \/ p.posted /\ Returns(resp)
         \/ ~p.posted /\ Returns(Answered(p))
  BY DEF receives, qemu, Answered, Dropped
<1>2. PICK g \in 0 .. sent : Served(g)
  BY DEF Serving
<1>3. PICK r : Returns(r) /\ Slotful(r) /\ ValuesRight(r, master)
  <2>1. CASE p.posted /\ Returns(resp)
    BY <2>1, SlottingTypes DEF Owned
  <2>2. CASE ~p.posted /\ Returns(Answered(p))
    BY <1>1, <2>2, AnswerOwned DEF Owned
  <2> QED
    BY <1>1, <2>1, <2>2
<1>4. /\ Requests(frames') /\ Ids(frames') = Ids(frames)
      /\ Current(g, phase', frames', mem, out)
  BY <1>1, <1>2, <1>3, ReturnsCurrent DEF Served
<1>5. Unread(g, sent, toSc')
  BY <1>1, <1>2, UnreadTakesAnswer DEF Served, Typed, TypeOK
<1> QED
  BY <1>1, <1>2, <1>4, <1>5, ServedNext DEF Served

(* What a request finds.                                                   *)
LEMMA NextRequest ==
  ASSUME PortConstants, Typed, NEW g \in 0 .. sent, Served(g),
         toSc # <<>>, ~Head(toSc).response
  PROVE  /\ g + 1 \in 1 .. sent /\ g + 1 \in 1 .. Len(program)
         /\ Head(toSc).id = g + 1 /\ Matches(Head(toSc))
         /\ Head(toSc).cmd = program[g + 1].cmd
         /\ Head(toSc).cmd = "hello" <=> g = 0
         /\ Unread(g + 1, sent, Tail(toSc))
<1>1. sent \in 0 .. Len(program) /\ Len(program) \in Nat /\ g \in Nat
  BY ScenarioType DEF Typed, TypeOK
<1>2. sent \in Nat /\ toSc \in Seq(Command) /\ Unread(g, sent, toSc)
  BY <1>1 DEF Typed, TypeOK, Served
<1>3. /\ g + 1 \in 1 .. sent /\ Head(toSc).id = g + 1 /\ Matches(Head(toSc))
      /\ Unread(g + 1, sent, Tail(toSc))
  BY <1>1, <1>2, UnreadTakes
<1>4. g + 1 \in 1 .. Len(program)
  BY ONLY <1>1, <1>3
<1>5. Head(toSc).cmd = program[g + 1].cmd
  BY <1>3 DEF Matches
<1>6. program[g + 1].cmd = "hello" <=> g + 1 = 1
  BY <1>4, ScenarioType DEF WellFormed, Typed, TypeOK, program
<1>7. g + 1 = 1 <=> g = 0
  BY <1>1
<1> QED
  BY <1>3, <1>4, <1>5, <1>6, <1>7

(* QEMU's hello, its first request, tells the capabilities.                *)
LEMMA ServingHeard ==
  ASSUME PortConstants, Typed, Serving, receives,
         ~Head(toSc).response, Head(toSc).cmd = "hello"
  PROVE  Serving'
<1>1. /\ phase = "read" /\ toSc # <<>> /\ toSc' = Tail(toSc)
      /\ caps' = scenario.caps /\ phase' = "sync"
      /\ UNCHANGED <<scenario, sent, answers, mem, out, toQemu, frames>>
  BY DEF receives, qemu
<1>2. PICK g \in 0 .. sent : Served(g)
  BY DEF Serving
<1>3. /\ g = 0 /\ g + 1 = 1 /\ 1 \in 1 .. sent
      /\ Unread(1, sent, toSc') /\ program[1].cmd = "hello"
  <2>1. g = 0 /\ g + 1 \in 1 .. sent /\ Unread(g + 1, sent, toSc')
        /\ Head(toSc).cmd = program[g + 1].cmd
    BY <1>1, <1>2, NextRequest
  <2>2. g + 1 = 1
    BY <2>1
  <2> QED
    BY <2>1, <2>2
<1>4. /\ program' = program
      /\ \A p : Matches(p)' <=> Matches(p)
      /\ \A i : Written(i)' = Written(i)
      /\ \A i : Raised(i)' = Raised(i)
  BY <1>1, ProgramNext
<1>5. Unread(1, sent, toSc)'
  BY <1>1, <1>3, <1>4 DEF Unread
<1>6. Requests(frames)' /\ Known(1)'
  BY <1>1, <1>2, <1>4 DEF Served, Requests, Known
<1>7. Replied(1, toQemu, answers, Ids(frames))'
  <2>1. 1 .. 0 = {} /\ 1 .. 1 = {1}
    OBVIOUS
  <2>2. Replied(0, toQemu, answers, Ids(frames))
    BY <1>2, <1>3 DEF Served
  <2>3. /\ \A p \in Elems(toQemu) : ~p.response
        /\ Elems(answers) = {} /\ Ids(frames) = {}
    BY <2>1, <2>2 DEF Replied
  <2>4. /\ \A i, j \in DOMAIN toQemu :
             toQemu[i].response /\ toQemu[j].response
               /\ toQemu[i].id = toQemu[j].id => i = j
        /\ \A i, j \in DOMAIN answers : answers[i].id = answers[j].id => i = j
    BY <2>2 DEF Replied
  <2>5. ~Awaited(1)'
    BY <1>3, <1>4 DEF Awaited
  <2>6. /\ \A p \in Elems(toQemu)' : ~p.response
        /\ Elems(answers)' = {} /\ Ids(frames)' = {}
    BY <1>1, <2>3 DEF Elems, Ids
  <2>7. /\ \A i, j \in DOMAIN toQemu' :
             toQemu'[i].response /\ toQemu'[j].response
               /\ toQemu'[i].id = toQemu'[j].id => i = j
        /\ \A i, j \in DOMAIN answers' :
             answers'[i].id = answers'[j].id => i = j
    BY <1>1, <2>4
  <2> QED
    BY <2>1, <2>5, <2>6, <2>7 DEF Replied
<1>8. Current(1, phase, frames, mem, out)'
  <2>1. mem = Written(1) /\ out = Raised(1)
    BY <1>1, <1>2, <1>3 DEF Served, Current
  <2>2. Written(1 + 1) = Written(1) /\ Raised(1 + 1) = Raised(1)
    BY <1>3, WrittenStep, RaisedStep
  <2> QED
    BY <1>1, <1>4, <2>1, <2>2 DEF Current
<1>9. Served(1)'
  BY <1>5, <1>6, <1>7, <1>8 DEF Served
<1> QED
  BY <1>1, <1>3, <1>9 DEF Serving

LEMMA ServingSync ==
  ASSUME PortConstants, Typed, Serving, receives,
         ~Head(toSc).response, Head(toSc).cmd = "sync"
  PROVE  Serving'
<1> DEFINE p == Head(toSc)
           a == Answer(p, 0)
           e == rp_encode_other(a, 8)
<1>1. /\ phase = "read" /\ toSc # <<>> /\ toSc' = Tail(toSc)
      /\ toQemu' = Append(toQemu, e) /\ phase' = "sync"
      /\ UNCHANGED <<scenario, sent, answers, mem, out, caps, frames>>
  BY DEF receives, qemu
<1>2. PICK g \in 0 .. sent : Served(g)
  BY DEF Serving
<1>3. /\ g + 1 \in 1 .. sent /\ p.id = g + 1 /\ program[g + 1].cmd = "sync"
      /\ Unread(g + 1, sent, toSc') /\ g # 0
  BY <1>1, <1>2, NextRequest
<1>4. p \in Command
  BY <1>1, Tailed DEF Typed, TypeOK
<1> HIDE DEF p
<1>5. a \in Command /\ a.id = g + 1 /\ a.response
  BY <1>3, <1>4, AnswerType
<1> HIDE DEF a
<1>6. e \in FramedCommand /\ e.id = g + 1 /\ e.response
  BY <1>5, OtherFramed DEF Carries
<1> HIDE DEF e
<1>7. Replied(g + 1, toQemu', answers, Ids(frames))
  <2>1. g \in Nat /\ toQemu \in Seq(FramedCommand)
    BY DEF Typed, TypeOK
  <2> DEFINE h == g + 1
             fs == Ids(frames) \cup {h}
  <2>2. /\ Replied(h, toQemu, answers, fs) /\ fs \ {h} = Ids(frames)
        /\ Open(toQemu, answers, h)
    BY <1>2, <2>1, RepliesMore DEF Served
  <2>3. Open(toQemu, answers, e.id) /\ e.id \in fs
    BY <1>6, <2>2
  <2>4. Proper(e.id, e.val)
    BY <1>3, <1>6 DEF Proper, Awaited
  <2>5. e.id \in 1 .. h /\ fs \ {e.id} = Ids(frames)
    BY <1>6, <2>1, <2>2
  <2> HIDE DEF fs, h
  <2>6. Replied(h, Append(toQemu, e), answers, fs \ {e.id})
    BY <1>6, <2>1, <2>2, <2>3, <2>4, <2>5, RepliesOnce
  <2> QED
    BY <1>1, <2>5, <2>6 DEF h
<1>8. Current(g + 1, phase', frames, mem, out)
  <2>1. mem = Written(g + 1) /\ out = Raised(g + 1)
    BY <1>1, <1>2 DEF Served, Current
  <2>2. g + 1 \in Nat \ {0}
    BY <1>3
  <2>3. Written((g + 1) + 1) = Written(g + 1)
        /\ Raised((g + 1) + 1) = Raised(g + 1)
    BY <1>3, <2>2, WrittenStep, RaisedStep
  <2> QED
    BY <1>1, <2>1, <2>3 DEF Current
<1>9. g + 1 \in 0 .. sent /\ Known(g + 1) /\ Requests(frames)
  BY <1>2, <1>3 DEF Served, Known
<1> QED
  BY <1>1, <1>3, <1>7, <1>8, <1>9, ServedNext

LEMMA ServingRequest ==
  ASSUME PortConstants, Typed, Serving, receives, ~Head(toSc).response,
         Head(toSc).cmd \in {"read", "write", "interrupt"}
  PROVE  Serving'
<1> DEFINE p == Head(toSc)
           F == [pkt |-> p, slot |-> -1, val |-> 0]
<1>1. /\ phase = "read" /\ toSc # <<>> /\ toSc' = Tail(toSc)
      /\ frames' = Append(frames, F) /\ phase' = "access"
      /\ UNCHANGED <<scenario, sent, answers, mem, out, caps, toQemu>>
  BY DEF receives, qemu
<1>2. PICK g \in 0 .. sent : Served(g)
  BY DEF Serving
<1>3. /\ g + 1 \in 1 .. sent /\ p.id = g + 1 /\ Matches(p)
      /\ Unread(g + 1, sent, toSc') /\ g # 0
  BY <1>1, <1>2, NextRequest
<1>4. F \in Frame /\ F.pkt = p
  <2>1. p \in Command
    BY <1>1, Tailed DEF Typed, TypeOK
  <2> HIDE DEF p
  <2> QED
    BY <2>1 DEF Frame
<1> HIDE DEF F, p
<1>5. /\ Replied(g + 1, toQemu, answers, Ids(frames) \cup {g + 1})
      /\ g + 1 \notin Ids(frames)
  <2>1. g \in Nat /\ Replied(g, toQemu, answers, Ids(frames))
    BY <1>2 DEF Served
  <2>2. g + 1 \notin Ids(frames)
    <3>1. Ids(frames) \subseteq 1 .. g
      BY <2>1 DEF Replied
    <3> QED
      BY <2>1, <3>1
  <2> QED
    BY <2>1, <2>2, RepliesMore
<1>6. /\ Requests(frames') /\ Ids(frames') = Ids(frames) \cup {g + 1}
      /\ frames \in Seq(Frame)
  BY <1>1, <1>2, <1>3, <1>4, <1>5, RequestsPushed DEF Served, Typed, TypeOK
<1>7. Current(g + 1, phase', frames', mem, out)
  <2>1. mem = Written(g + 1) /\ out = Raised(g + 1)
    BY <1>1, <1>2 DEF Served, Current
  <2>2. frames'[Len(frames')] = F
    BY <1>1, <1>4, <1>6, Appended
  <2> QED
    BY <1>1, <1>3, <1>4, <2>1, <2>2 DEF Current
<1>8. g + 1 \in 0 .. sent /\ Known(g + 1)
  BY <1>2, <1>3 DEF Served, Known
<1> QED
  BY <1>1, <1>3, <1>5, <1>6, <1>7, <1>8, ServedNext

LEMMA ServingReceives ==
  ASSUME PortConstants, Typed, Slotting, Serving, receives
  PROVE  Serving'
BY ServingResponse, ServingHeard, ServingSync, ServingRequest DEF receives

(* The request on top.                                                     *)
LEMMA ServedTop ==
  ASSUME PortConstants, Typed, NEW g \in 0 .. sent, Served(g),
         phase \in {"access", "delta"}
  PROVE  /\ frames # <<>> /\ frames \in Seq(Frame) /\ Top = frames[Len(frames)]
         /\ Top \in Frame /\ Top.pkt \in Command /\ Matches(Top.pkt)
         /\ Top.pkt.id \in Ids(frames) /\ Top.pkt.id \in 1 .. g
         /\ Top.pkt.id \in 1 .. Len(program) /\ g \in Nat \ {0}
         /\ toQemu \in Seq(FramedCommand)
         /\ phase = "access" =>
              Top.pkt.id = g /\ mem = Written(g) /\ out = Raised(g)
         /\ phase = "delta" => mem = Written(g + 1) /\ out = Raised(g + 1)
<1>1. frames # <<>>
  BY DEF Typed, Stacked
<1>2. /\ frames \in Seq(Frame) /\ Top = frames[Len(frames)] /\ Top \in Frame
      /\ Top.pkt \in Command /\ toQemu \in Seq(FramedCommand)
  BY <1>1, Stack, Typing DEF Typed, TypeOK
<1>3. Top.pkt.id \in Ids(frames) /\ Matches(Top.pkt)
  BY <1>1, <1>2, RequestsPopped DEF Served
<1>4. Top.pkt.id \in 1 .. g
  BY <1>3 DEF Served, Replied
<1>5. g \in Nat \ {0} /\ Top.pkt.id \in 1 .. Len(program)
  <2>1. sent \in 0 .. Len(program) /\ Len(program) \in Nat
    BY ScenarioType DEF Typed, TypeOK
  <2> QED
    BY <1>4, <2>1
<1>6. phase = "access" =>
        Top.pkt.id = g /\ mem = Written(g) /\ out = Raised(g)
  BY <1>2 DEF Served, Current
<1>7. phase = "delta" => mem = Written(g + 1) /\ out = Raised(g + 1)
  BY DEF Served, Current
<1> QED
  BY <1>1, <1>2, <1>3, <1>4, <1>5, <1>6, <1>7

LEMMA ServingAccess ==
  ASSUME PortConstants, Typed, Serving, access
  PROVE  Serving'
<1> DEFINE F == [Top EXCEPT !.val = mem]
<1>1. /\ phase = "access" /\ phase' = "delta" /\ frames' = Append(Pop, F)
      /\ Top.pkt.cmd \in {"read", "write"} /\ Top.pkt.addr # Hole
      /\ mem' = IF Top.pkt.cmd = "write" THEN Top.pkt.val ELSE mem
      /\ UNCHANGED <<scenario, sent, answers, toSc, toQemu, caps, out>>
  BY DEF access, qemu
<1>2. PICK g \in 0 .. sent : Served(g)
  BY DEF Serving
<1>3. /\ frames # <<>> /\ frames \in Seq(Frame) /\ Top = frames[Len(frames)]
      /\ Top \in Frame /\ Top.pkt \in Command /\ Matches(Top.pkt)
      /\ Top.pkt.id = g /\ mem = Written(g) /\ out = Raised(g)
      /\ g \in Nat \ {0}
  BY <1>1, <1>2, ServedTop
<1>4. F \in Frame /\ F.pkt = Top.pkt /\ F.val = mem
  <2>1. mem \in Int
    BY DEF Typed, TypeOK
  <2> QED
    BY <1>3, <2>1, Typing DEF Typed
<1> HIDE DEF F
<1>5. Requests(frames') /\ Ids(frames') = Ids(frames)
  BY <1>1, <1>2, <1>3, <1>4, RequestsReplaced DEF Served, Pop
<1>6. /\ program[g].cmd = Top.pkt.cmd /\ program[g].addr = Top.pkt.addr
      /\ program[g].val = Top.pkt.val
  BY <1>3 DEF Matches
<1>7. mem' = Written(g + 1) /\ out = Raised(g + 1)
  BY <1>1, <1>3, <1>6, WrittenStep, RaisedStep
<1>8. Current(g, phase', frames', mem', out)
  <2>1. /\ Len(frames) \in Nat \ {0} /\ Len(frames') = Len(frames)
        /\ \A k \in 1 .. Len(frames) :
             frames'[k] = IF k = Len(frames) THEN F ELSE frames[k]
    BY <1>1, <1>3, <1>4, Stack DEF Typed
  <2>2. Len(frames) \in 1 .. Len(frames)
    BY ONLY <2>1
  <2>3. frames'[Len(frames')] = F
    BY <2>1, <2>2
  <2> QED
    BY <1>1, <1>3, <1>4, <1>7, <2>3 DEF Current
<1> QED
  BY <1>1, <1>2, <1>5, <1>8, ServedNext DEF Served

LEMMA ServingForwards ==
  ASSUME PortConstants, Typed, Serving, forwards
  PROVE  Serving'
<1> DEFINE q == Packet(Top.pkt.cmd, rp_pkt_id, "mem", FALSE, Top.pkt.posted,
                       0, Top.pkt.val)
           e == rp_encode_busaccess(caps, q, 4, 0)
           F == [Top EXCEPT !.slot = rp_pkt_id]
<1>1. /\ phase = "access" /\ Top.pkt.cmd \in {"read", "write"}
      /\ Top.pkt.addr = Hole /\ toQemu' = Append(toQemu, e)
      /\ IF Top.pkt.posted THEN phase' = "delta" /\ UNCHANGED frames
         ELSE phase' = "listen" /\ frames' = Append(Pop, F)
      /\ UNCHANGED <<scenario, sent, answers, toSc, caps, mem, out>>
  BY DEF forwards, qemu
<1>2. PICK g \in 0 .. sent : Served(g)
  BY DEF Serving
<1>3. /\ frames # <<>> /\ frames \in Seq(Frame) /\ Top = frames[Len(frames)]
      /\ Top \in Frame /\ Top.pkt \in Command /\ Matches(Top.pkt)
      /\ Top.pkt.id = g /\ mem = Written(g) /\ out = Raised(g)
      /\ g \in Nat \ {0} /\ g \in 1 .. Len(program)
      /\ toQemu \in Seq(FramedCommand)
  BY <1>1, <1>2, ServedTop
<1>4. rp_pkt_id \in Nat
  BY DEF Typed, TypeOK
<1>5. F \in Frame /\ F.pkt = Top.pkt
  <2>1. rp_pkt_id \in Int
    BY <1>4
  <2> QED
    BY <1>3, <2>1, Typing DEF Typed
<1> HIDE DEF F
<1>6. q \in Command /\ q.cmd \in {"read", "write"} /\ ~q.response
  <2>1. /\ Top.pkt.cmd \in Cmds /\ "mem" \in Devs \cup {"qemu"}
        /\ FALSE \in BOOLEAN /\ Top.pkt.posted \in BOOLEAN /\ 0 \in Int
        /\ Top.pkt.val \in Int
    BY <1>3 DEF Command, Devs
  <2>2. q \in Command
    BY <1>4, <2>1, PacketType
  <2>3. q.cmd = Top.pkt.cmd /\ q.response = FALSE
    BY DEF Packet
  <2> QED
    BY <1>1, <2>2, <2>3
<1> HIDE DEF q
<1>7. e \in FramedCommand /\ ~e.response
  <2>1. 0 \in {0, 4}
    OBVIOUS
  <2> QED
    BY <1>6, <2>1, BusFramed DEF Carries
<1> HIDE DEF e
<1>8. Requests(frames') /\ Ids(frames') = Ids(frames)
  <2>1. CASE Top.pkt.posted
    BY <1>1, <1>2, <2>1 DEF Served
  <2>2. CASE ~Top.pkt.posted
    BY <1>1, <1>2, <1>3, <1>5, <2>2, RequestsReplaced DEF Served, Pop
  <2> QED
    BY <2>1, <2>2
<1>9. Replied(g, toQemu', answers, Ids(frames))
  <2>1. toQemu' = toQemu \o <<e>> /\ <<e>> \in Seq(FramedCommand)
        /\ Elems(<<e>>) = {e}
    BY <1>1, <1>3, <1>7, OneSent
  <2> DEFINE s == <<e>>
  <2>2. /\ toQemu' = toQemu \o s /\ s \in Seq(FramedCommand)
        /\ \A p \in Elems(s) : ~p.response
    BY <1>7, <2>1
  <2> HIDE DEF s
  <2> QED
    BY <1>2, <1>3, <2>2, RepliesQuietly DEF Served
<1>10. /\ program[g].cmd = Top.pkt.cmd /\ program[g].addr = Top.pkt.addr
       /\ program[g].posted = Top.pkt.posted
  BY <1>3 DEF Matches
<1>11. mem = Written(g + 1) /\ out = Raised(g + 1)
  BY <1>1, <1>3, <1>10, WrittenStep, RaisedStep
<1>12. Top.pkt.posted => Top.pkt.cmd # "read"
  BY <1>3, <1>10, ScenarioType DEF WellFormed, Typed, TypeOK, program
<1>13. Current(g, phase', frames', mem, out)
  BY <1>1, <1>3, <1>11, <1>12 DEF Current
<1> QED
  BY <1>1, <1>2, <1>8, <1>9, <1>13, ServedNext DEF Served

LEMMA ServingReplies ==
  ASSUME PortConstants, Typed, Serving, replies
  PROVE  Serving'
<1> DEFINE a == Answer(Top.pkt, Top.val)
           e == rp_encode_busaccess(caps, a, 4, 0)
<1>1. /\ phase = "delta" /\ phase' = "sync" /\ frames' = Pop
      /\ toQemu' = IF Answers(Top.pkt) THEN Append(toQemu, e) ELSE toQemu
      /\ UNCHANGED <<scenario, sent, answers, toSc, caps, mem, out>>
  BY DEF replies, qemu
<1>2. PICK g \in 0 .. sent : Served(g)
  BY DEF Serving
<1>3. /\ frames # <<>> /\ frames \in Seq(Frame) /\ Top = frames[Len(frames)]
      /\ Top \in Frame /\ Top.pkt \in Command /\ Matches(Top.pkt)
      /\ Top.pkt.id \in Ids(frames) /\ Top.pkt.id \in 1 .. g
      /\ mem = Written(g + 1) /\ out = Raised(g + 1)
      /\ toQemu \in Seq(FramedCommand)
  BY <1>1, <1>2, ServedTop
<1>4. Top.pkt.cmd \in {"read", "write"}
  BY <1>1 DEF Typed, Stacked
<1>5. a \in Command /\ a.cmd \in {"read", "write"} /\ a.id = Top.pkt.id
      /\ a.response /\ a.val = Top.val
  <2>1. Top.val \in Int
    BY <1>3, Typing DEF Typed
  <2>2. Top.pkt \in Command \cup FramedCommand
    BY <1>3
  <2>3. a \in Command
    BY <2>1, <2>2, AnswerType
  <2>4. /\ a.cmd = Top.pkt.cmd /\ a.id = Top.pkt.id
        /\ a.response = TRUE /\ a.val = Top.val
    BY DEF Answer, Packet
  <2> HIDE DEF a
  <2> QED
    BY <1>4, <2>3, <2>4
<1> HIDE DEF a
<1>6. e \in FramedCommand /\ e.id = Top.pkt.id /\ e.response /\ e.val = Top.val
  <2>1. 0 \in {0, 4}
    OBVIOUS
  <2> QED
    BY <1>5, <2>1, BusFramed DEF Carries
<1> HIDE DEF e
<1>7. Requests(frames') /\ Ids(frames') = Ids(frames) \ {Top.pkt.id}
  BY <1>1, <1>2, <1>3, RequestsPopped DEF Served, Pop
<1>8. /\ program[Top.pkt.id].cmd = Top.pkt.cmd
      /\ program[Top.pkt.id].addr = Top.pkt.addr
      /\ program[Top.pkt.id].posted = Top.pkt.posted
  BY <1>3 DEF Matches
<1>9. Replied(g, toQemu', answers, Ids(frames'))
  <2>1. Replied(g, toQemu, answers, Ids(frames))
    BY <1>2 DEF Served
  <2>2. CASE Answers(Top.pkt)
    <3>1. Proper(e.id, e.val)
      <4>1. Awaited(e.id)
        BY <1>4, <1>6, <1>8, <2>2 DEF Awaited, Answers
      <4>2. Top.pkt.cmd = "read" => IF Top.pkt.addr = Hole THEN Top.val # 0
                                    ELSE Top.val = Written(Top.pkt.id)
        BY <1>1, <1>2, <1>3 DEF Served, Current
      <4> QED
        BY <1>6, <1>8, <4>1, <4>2 DEF Proper
    <3>2. Open(toQemu, answers, e.id)
      BY <1>3, <1>6, <2>1 DEF Replied
    <3>3. Replied(g, Append(toQemu, e), answers, Ids(frames) \ {e.id})
      BY <1>3, <1>6, <2>1, <3>1, <3>2, RepliesOnce
    <3> QED
      BY <1>1, <1>6, <1>7, <2>2, <3>3
  <2>3. CASE ~Answers(Top.pkt)
    <3>1. ~Awaited(Top.pkt.id)
      BY <1>4, <1>8, <2>3 DEF Awaited, Answers
    <3>2. Replied(g, toQemu, answers, Ids(frames) \ {Top.pkt.id})
      BY <2>1, <3>1, RepliesNot
    <3> QED
      BY <1>1, <1>7, <2>3, <3>2
  <2> QED
    BY <2>2, <2>3
<1>10. Current(g, phase', frames', mem, out)
  BY <1>1, <1>3 DEF Current
<1> QED
  BY <1>1, <1>2, <1>7, <1>9, <1>10, ServedNext DEF Served

LEMMA ServingInterrupt ==
  ASSUME PortConstants, Typed, Serving, cmd_interrupt
  PROVE  Serving'
<1> DEFINE a == Answer(Top.pkt, 0)
           e == rp_encode_other(a, 21)
<1>1. /\ phase = "access" /\ phase' = "sync" /\ frames' = Pop
      /\ Top.pkt.cmd = "interrupt" /\ out' = Top.pkt.val
      /\ toQemu' = IF AnswersWire(Top.pkt) THEN Append(toQemu, e) ELSE toQemu
      /\ UNCHANGED <<scenario, sent, answers, toSc, caps, mem>>
  BY DEF cmd_interrupt, qemu
<1>2. PICK g \in 0 .. sent : Served(g)
  BY DEF Serving
<1>3. /\ frames # <<>> /\ frames \in Seq(Frame) /\ Top = frames[Len(frames)]
      /\ Top \in Frame /\ Top.pkt \in Command /\ Matches(Top.pkt)
      /\ Top.pkt.id \in Ids(frames) /\ Top.pkt.id = g /\ g \in Nat \ {0}
      /\ mem = Written(g) /\ out = Raised(g)
      /\ toQemu \in Seq(FramedCommand)
  BY <1>1, <1>2, ServedTop
<1>4. a \in Command /\ a.id = g /\ a.response
  <2>1. Top.pkt \in Command \cup FramedCommand /\ 0 \in Int
    BY <1>3
  <2>2. a \in Command
    BY <2>1, AnswerType
  <2>3. a.id = Top.pkt.id /\ a.response = TRUE
    BY DEF Answer, Packet
  <2> HIDE DEF a
  <2> QED
    BY <1>3, <2>2, <2>3
<1> HIDE DEF a
<1>5. e \in FramedCommand /\ e.id = g /\ e.response
  BY <1>4, OtherFramed DEF Carries
<1> HIDE DEF e
<1>6. Requests(frames') /\ Ids(frames') = Ids(frames) \ {g}
  BY <1>1, <1>2, <1>3, RequestsPopped DEF Served, Pop
<1>7. /\ program[g].cmd = "interrupt" /\ program[g].val = Top.pkt.val
      /\ program[g].posted = Top.pkt.posted
  BY <1>1, <1>3 DEF Matches
<1>8. Replied(g, toQemu', answers, Ids(frames'))
  <2>1. Replied(g, toQemu, answers, Ids(frames))
    BY <1>2 DEF Served
  <2>2. CASE AnswersWire(Top.pkt)
    <3>1. Proper(e.id, e.val)
      BY <1>5, <1>7, <2>2 DEF Awaited, AnswersWire, Proper
    <3>2. Open(toQemu, answers, e.id) /\ e.id \in 1 .. g
      BY <1>3, <1>5, <2>1 DEF Replied
    <3>3. Replied(g, Append(toQemu, e), answers, Ids(frames) \ {e.id})
      BY <1>3, <1>5, <2>1, <3>1, <3>2, RepliesOnce
    <3> QED
      BY <1>1, <1>5, <1>6, <2>2, <3>3
  <2>3. CASE ~AnswersWire(Top.pkt)
    <3>1. ~Awaited(g)
      BY <1>7, <2>3 DEF Awaited, AnswersWire
    <3>2. Replied(g, toQemu, answers, Ids(frames) \ {g})
      BY <2>1, <3>1, RepliesNot
    <3> QED
      BY <1>1, <1>6, <2>3, <3>2
  <2> QED
    BY <2>2, <2>3
<1>9. mem = Written(g + 1) /\ out' = Raised(g + 1)
  BY <1>1, <1>3, <1>7, WrittenStep, RaisedStep
<1>10. Current(g, phase', frames', mem, out')
  BY <1>1, <1>9 DEF Current
<1> QED
  BY <1>1, <1>2, <1>6, <1>8, <1>10, ServedNext DEF Served

LEMMA ServingTransport ==
  ASSUME PortConstants, Typed, Serving, NEW m \in Masters, b_transport(m)
  PROVE  Serving'
<1>1. /\ UNCHANGED <<scenario, qemu, toSc, phase, frames, caps, mem, out>>
      /\ \/ toQemu' = toQemu
         \/ \E q \in Command, be \in {0, 4} :
              /\ q.cmd \in {"read", "write"} /\ ~q.response
              /\ Transport(m, q, be)
  BY TransportCases DEF Typed
<1>2. Quietly(toQemu, toQemu')
  <2>1. CASE toQemu' = toQemu
    BY <2>1 DEF Quietly
  <2>2. ASSUME NEW q \in Command, NEW be \in {0, 4},
               q.cmd \in {"read", "write"}, ~q.response, Transport(m, q, be)
        PROVE  Quietly(toQemu, toQemu')
    <3> DEFINE e == rp_encode_busaccess(caps, q, 4, be)
    <3>1. /\ be # 0 => "ext_base" \in caps
          /\ toQemu' = Append(toQemu, e)
      BY <2>2, Enables DEF Transport, Typed
    <3>2. e \in FramedCommand /\ ~e.response
      BY <2>2, <3>1, BusFramed DEF Carries
    <3> HIDE DEF e
    <3>3. toQemu' = toQemu \o <<e>> /\ <<e>> \in Seq(FramedCommand)
          /\ Elems(<<e>>) = {e}
      BY <3>1, <3>2, OneSent DEF Typed, TypeOK
    <3> QED
      BY <3>2, <3>3 DEF Quietly
  <2> QED
    BY <1>1, <2>1, <2>2
<1> QED
  BY <1>1, <1>2, ServingSame DEF qemu

LEMMA ServingUpdates ==
  ASSUME PortConstants, Typed, Serving, updates_wires
  PROVE  Serving'
<1>1. /\ toQemu' = toQemu \o UpdatePackets
      /\ UpdatePackets \in Seq(FramedCommand)
      /\ UNCHANGED <<scenario, qemu, toSc, phase, frames, caps, mem, out>>
      /\ \A k \in DOMAIN UpdatePackets : ~UpdatePackets[k].response
  BY UpdatesSent DEF Typed
<1>2. Quietly(toQemu, toQemu')
  BY <1>1 DEF Quietly, Elems
<1> QED
  BY <1>1, <1>2, ServingSame DEF qemu

LEMMA ServingStep ==
  ASSUME PortConstants, Typed, Slotting, Serving, [Next]_vars
  PROVE  Serving'
<1>1. ASSUME UNCHANGED <<scenario, caps, sent, answers, toSc, toQemu, frames,
                         mem, out>>,
             phase' = phase \/ {phase, phase'} \cap {"access", "delta"} = {}
      PROVE  Serving'
  BY <1>1, ServingSame DEF Quietly
<1>2. CASE UNCHANGED vars
  BY <1>1, <1>2 DEF vars, qemu
<1>3. CASE thread_locks \/ thread_notifies
  BY <1>1, <1>3 DEF thread_locks, thread_notifies, qemu
<1>4. CASE reads \/ resumes
  BY <1>1, <1>4 DEF reads, resumes, qemu
<1>5. ASSUME NEW m \in Masters, response_wait(m) PROVE Serving'
  BY <1>1, <1>5 DEF response_wait, qemu
<1>6. ASSUME NEW w \in Wires, wire_changes(w) PROVE Serving'
  BY <1>1, <1>6 DEF wire_changes, qemu
<1>7. CASE updated_wires
  BY <1>1, <1>7 DEF updated_wires, qemu
<1> QED
  BY <1>2, <1>3, <1>4, <1>5, <1>6, <1>7, ServingQemuSends, ServingQemuReceives,
     ServingHello, ServingReceives, ServingAccess, ServingForwards,
     ServingReplies, ServingInterrupt, ServingTransport, ServingUpdates
  DEF Next

-----------------------------------------------------------------------------
(* There are enough slots: the accesses that may come back to QEMU are     *)
(* among the requests whose answers it waits for.                          *)

Access(i) == program[i].cmd \in {"read", "write"} /\ ~program[i].posted
Pending == {i \in 1 .. sent : Access(i) /\ ~GotAnswer(i)}
Bounded == Cardinality(Pending) <= scenario.outstanding

LEMMA PendingFinite ==
  ASSUME sent \in Nat
  PROVE  IsFiniteSet(Pending) /\ Cardinality(Pending) \in Nat
<1>1. IsFiniteSet(1 .. sent)
  BY FS_Interval
<1>2. Pending \subseteq 1 .. sent
  BY DEF Pending
<1> QED
  BY <1>1, <1>2, FS_Subset, FS_CardinalityType

LEMMA BoundedStep ==
  ASSUME PortConstants, Typed, Bounded, [Next]_vars
  PROVE  Bounded'
<1>1. sent \in Nat /\ scenario.outstanding \in Nat
  BY ScenarioType DEF Typed, TypeOK, WellFormed
<1>2. IsFiniteSet(Pending) /\ Cardinality(Pending) \in Nat
  BY <1>1, PendingFinite
<1>3. CASE qemu_sends
  <2> DEFINE A == {i \in 1 .. sent : Awaited(i) /\ ~GotAnswer(i)}
  <2>1. /\ Cardinality(A) < scenario.outstanding
        /\ sent' = sent + 1 /\ UNCHANGED <<scenario, answers>>
    BY <1>3 DEF qemu_sends
  <2>2. IsFiniteSet(A) /\ Cardinality(A) \in Nat
    <3>1. IsFiniteSet(1 .. sent) /\ A \subseteq 1 .. sent
      BY <1>1, FS_Interval
    <3> HIDE DEF A
    <3> QED
      BY <3>1, FS_Subset, FS_CardinalityType
  <2>3. Pending' \subseteq A \cup {sent + 1}
    <3> SUFFICES ASSUME NEW i \in Pending' PROVE i \in A \cup {sent + 1}
      OBVIOUS
    <3>1. i \in 1 .. sent + 1 /\ Access(i) /\ ~GotAnswer(i)
      BY <2>1 DEF Pending, Access, GotAnswer, program
    <3>2. i = sent + 1 \/ i \in 1 .. sent
      BY <1>1, <3>1
    <3>3. Awaited(i)
      BY <3>1 DEF Access, Awaited
    <3> QED
      BY <3>1, <3>2, <3>3
  <2> HIDE DEF A
  <2>4. /\ IsFiniteSet(A \cup {sent + 1})
        /\ Cardinality(A \cup {sent + 1}) <= Cardinality(A) + 1
        /\ Cardinality(A \cup {sent + 1}) \in Nat
    <3>1. /\ IsFiniteSet(A \cup {sent + 1})
          /\ Cardinality(A \cup {sent + 1}) =
               IF sent + 1 \in A THEN Cardinality(A) ELSE Cardinality(A) + 1
      BY <2>2, FS_AddElement
    <3> QED
      BY <2>2, <3>1
  <2>5. /\ Cardinality(Pending') <= Cardinality(A \cup {sent + 1})
        /\ Cardinality(Pending') \in Nat
    BY <2>3, <2>4, FS_Subset, FS_CardinalityType
  <2>6. Cardinality(Pending') <= scenario.outstanding
    BY ONLY <1>1, <2>1, <2>2, <2>4, <2>5
  <2> QED
    BY <2>1, <2>6 DEF Bounded
<1>4. ASSUME sent' = sent, scenario' = scenario,
             \A i : GotAnswer(i) => GotAnswer(i)'
      PROVE  Bounded'
  <2>1. Pending' \subseteq Pending
    BY <1>4 DEF Pending, Access, program
  <2>2. /\ Cardinality(Pending') <= Cardinality(Pending)
        /\ Cardinality(Pending') \in Nat
    BY <1>2, <2>1, FS_Subset, FS_CardinalityType
  <2>3. Cardinality(Pending) <= scenario.outstanding
    BY DEF Bounded
  <2>4. Cardinality(Pending') <= scenario.outstanding
    BY ONLY <1>1, <1>2, <2>2, <2>3
  <2> QED
    BY <1>4, <2>4 DEF Bounded
<1>5. ASSUME sent' = sent, scenario' = scenario, answers' = answers
      PROVE  Bounded'
  BY <1>4, <1>5 DEF GotAnswer
<1>6. CASE qemu_receives
  <2> DEFINE p == Head(toQemu)
             a == [id |-> p.id, val |-> p.val]
  <2>1. /\ toQemu # <<>> /\ sent' = sent /\ scenario' = scenario
        /\ answers' = IF p.response THEN Append(answers, a) ELSE answers
    BY <1>6 DEF qemu_receives
  <2>2. a \in Record /\ answers \in Seq(Record)
    <3>1. p \in FramedCommand
      BY <2>1, Tailed DEF Typed, TypeOK
    <3>2. p.id \in Nat /\ p.val \in Int
      BY <3>1 DEF FramedCommand
    <3> HIDE DEF p
    <3> QED
      BY <3>2 DEF Record, Typed, TypeOK
  <2> HIDE DEF a
  <2>3. \A k \in DOMAIN answers : k \in DOMAIN answers'
                                    /\ answers'[k] = answers[k]
    BY <2>1, <2>2, Appended
  <2>4. \A i : GotAnswer(i) => GotAnswer(i)'
    BY <2>3 DEF GotAnswer
  <2> QED
    BY <1>4, <2>1, <2>4
<1>7. CASE UNCHANGED vars
  BY <1>5, <1>7 DEF vars, qemu
<1>8. CASE thread_locks \/ thread_notifies \/ say_hello \/ reads \/ receives
  BY <1>5, <1>8 DEF thread_locks, thread_notifies, say_hello, reads, receives,
                    qemu
<1>9. CASE access \/ forwards \/ replies \/ cmd_interrupt \/ resumes
  BY <1>5, <1>9 DEF access, forwards, replies, cmd_interrupt, resumes, qemu
<1>10. CASE \E m \in Masters : b_transport(m) \/ response_wait(m)
  BY <1>5, <1>10 DEF b_transport, response_wait, qemu
<1>11. CASE \E w \in Wires : wire_changes(w)
  BY <1>5, <1>11 DEF wire_changes, qemu
<1>12. CASE updates_wires \/ updated_wires
  BY <1>5, <1>12 DEF updates_wires, updated_wires, qemu
<1> QED
  BY <1>3, <1>6, <1>7, <1>8, <1>9, <1>10, <1>11, <1>12 DEF Next

LEMMA Injects ==
  ASSUME NEW S, NEW T, IsFiniteSet(S), IsFiniteSet(T), NEW f \in [S -> T],
         \A x, y \in S : f[x] = f[y] => x = y
  PROVE  Cardinality(S) <= Cardinality(T)
<1>1. Cardinality(S) \in Nat /\ Cardinality(T) \in Nat
  BY FS_CardinalityType
<1>2. ~(Cardinality(T) < Cardinality(S))
  BY FS_PigeonHole
<1> QED
  BY <1>1, <1>2

LEMMA Images ==
  ASSUME NEW S, IsFiniteSet(S), NEW f, f = [x \in S |-> f[x]]
  PROVE  IsFiniteSet({f[x] : x \in S})
<1> DEFINE T == {f[x] : x \in S}
<1>1. f \in [S -> T]
  OBVIOUS
<1>2. \A t \in T : \E x \in S : f[x] = t
  OBVIOUS
<1> HIDE DEF T
<1>3. f \in Surjection(S, T)
  BY <1>1, <1>2 DEF Surjection
<1>4. IsFiniteSet(T)
  BY <1>3, FS_Surjection
<1> QED
  BY <1>4 DEF T

(* An access of QEMU in a frame has no answer yet.                         *)
LEMMA FramePends ==
  ASSUME PortConstants, Typed, Serving, NEW k \in DOMAIN frames,
         frames[k].pkt.cmd \in {"read", "write"}, ~frames[k].pkt.posted
  PROVE  frames[k].pkt.id \in Pending
<1>1. PICK g \in 0 .. sent : Served(g)
  BY DEF Serving
<1> DEFINE i == frames[k].pkt.id
<1>2. i \in Ids(frames) /\ Matches(frames[k].pkt)
  BY <1>1 DEF Served, Requests, Ids
<1>3. i \in 1 .. g /\ ~Got(answers, i)
  BY <1>1, <1>2 DEF Served, Replied, Open
<1>4. i \in 1 .. sent
  <2>1. sent \in Nat
    BY ScenarioType DEF Typed, TypeOK
  <2> HIDE DEF i
  <2> QED
    BY <1>3, <2>1
<1> QED
  BY <1>2, <1>3, <1>4 DEF Pending, Access, GotAnswer, Got, Matches

(* When no slot is free, there are as many that wait.                      *)
LEMMA SlotsTaken ==
  ASSUME PortConstants, Typed, Slotting, Serving, ~Room("mem"),
         NEW W, IsFiniteSet(W),
         \A m \in Masters : master[m].at = "waits" => m \in W,
         NEW P, IsFiniteSet(P),
         \A k \in DOMAIN frames : Waits(k) => frames[k].pkt.id \in P
  PROVE  Slots <= Cardinality(W) + Cardinality(P)
<1>1. /\ \A i \in Slot : resp["mem"][i].used
      /\ OneEach(resp)
      /\ SlotsOwned(resp, master, Held, wire_update)
  BY SlottingTypes DEF Room, Owned
<1> DEFINE U == {m \in W : m \in Masters /\ master[m].at = "waits"}
           M == {master[m].id : m \in U}
           owner == [x \in M |-> CHOOSE m \in U : master[m].id = x]
           waiter == [x \in Held |-> CHOOSE k \in DOMAIN frames :
                                       frames[k].slot = x]
           request == [x \in Held |-> frames[waiter[x]].pkt.id]
           number == [i \in Slot |-> resp["mem"][i].id]
<1>2. /\ owner \in [M -> W]
      /\ \A x, y \in M : owner[x] = owner[y] => x = y
  <2>1. \A x \in M : owner[x] \in U /\ master[owner[x]].id = x
    OBVIOUS
  <2>2. U \subseteq W /\ DOMAIN owner = M
    OBVIOUS
  <2>3. owner \in [M -> W]
    BY <2>1
  <2> HIDE DEF owner, M, U
  <2> QED
    BY <2>1, <2>3
<1>3. /\ request \in [Held -> P]
      /\ \A x, y \in Held : request[x] = request[y] => x = y
  <2>1. \A x \in Held : waiter[x] \in DOMAIN frames /\ Waits(waiter[x])
                          /\ frames[waiter[x]].slot = x
    BY DEF Held, Waits
  <2> HIDE DEF waiter
  <2>2. request \in [Held -> P]
    BY <2>1
  <2>3. \A x, y \in Held : request[x] = request[y] => waiter[x] = waiter[y]
    BY <2>1 DEF Serving, Served, Requests
  <2> HIDE DEF request
  <2> QED
    BY <2>1, <2>2, <2>3
<1> HIDE DEF owner, request, waiter
<1>4. /\ number \in [Slot -> M \cup Held]
      /\ \A i, j \in Slot : number[i] = number[j] => i = j
  <2>1. \A i \in Slot : resp["mem"][i].id \in M \cup Held
    <3> TAKE i \in Slot
    <3>1. CASE resp["mem"][i].id \in Held
      BY <3>1
    <3>2. CASE resp["mem"][i].id \notin Held
      <4>1. PICK m \in Masters :
              master[m].at = "waits" /\ master[m].id = resp["mem"][i].id
        BY <1>1, <3>2 DEF SlotsOwned
      <4>2. m \in U
        BY <4>1
      <4> QED
        BY <4>1, <4>2
    <3> QED
      BY <3>1, <3>2
  <2> HIDE DEF M, U
  <2>2. "mem" \in Devs
    BY DEF Devs
  <2> QED
    BY <1>1, <2>1, <2>2 DEF OneEach
<1> HIDE DEF number
<1>5. IsFiniteSet(M)
  <2>1. IsFiniteSet(U)
    BY FS_Subset
  <2> HIDE DEF U
  <2> DEFINE f == [m \in U |-> master[m].id]
  <2>2. f = [m \in U |-> f[m]] /\ M = {f[m] : m \in U}
    OBVIOUS
  <2> HIDE DEF f
  <2> QED
    BY <2>1, <2>2, Images
<1> HIDE DEF M
<1>6. IsFiniteSet(Held)
  <2>1. IsFiniteSet(DOMAIN frames)
    <3>1. Len(frames) \in Nat /\ DOMAIN frames = 1 .. Len(frames)
      BY LenProperties DEF Typed, TypeOK
    <3>2. IsFiniteSet(1 .. Len(frames))
      BY <3>1, FS_Interval
    <3> QED
      BY <3>1, <3>2
  <2> DEFINE D == DOMAIN frames
             H == {frames[k].slot : k \in D}
  <2> HIDE DEF D
  <2>2. IsFiniteSet(H)
    <3> DEFINE f == [k \in D |-> frames[k].slot]
    <3>1. f = [k \in D |-> f[k]] /\ H = {f[k] : k \in D}
      OBVIOUS
    <3>2. IsFiniteSet(D)
      BY <2>1 DEF D
    <3> HIDE DEF f
    <3> QED
      BY <3>1, <3>2, Images
  <2>3. Held \subseteq H
    BY DEF Held, D
  <2> HIDE DEF H
  <2> QED
    BY <2>2, <2>3, FS_Subset
<1>7. /\ IsFiniteSet(M \cup Held)
      /\ Cardinality(M \cup Held) <= Cardinality(M) + Cardinality(Held)
      /\ Cardinality(M \cup Held) \in Nat
      /\ Cardinality(M) \in Nat /\ Cardinality(Held) \in Nat
  <2>1. /\ IsFiniteSet(M \cup Held) /\ IsFiniteSet(M \cap Held)
        /\ Cardinality(M \cup Held) =
             Cardinality(M) + Cardinality(Held) - Cardinality(M \cap Held)
    <3>1. IsFiniteSet(M \cap Held)
      <4>1. M \cap Held \subseteq M
        OBVIOUS
      <4> QED
        BY <1>5, <4>1, FS_Subset
    <3> QED
      BY <1>5, <1>6, <3>1, FS_Union
  <2>2. /\ Cardinality(M \cup Held) \in Nat /\ Cardinality(M) \in Nat
        /\ Cardinality(Held) \in Nat /\ Cardinality(M \cap Held) \in Nat
    BY <1>5, <1>6, <2>1, FS_CardinalityType
  <2> QED
    BY <2>1, <2>2
<1>8. IsFiniteSet(Slot) /\ Cardinality(Slot) = Slots /\ Slots \in Nat
  <2>1. Slots \in Nat \ {0}
    BY DEF PortConstants
  <2>2. /\ IsFiniteSet(1 .. Slots)
        /\ Cardinality(1 .. Slots) = IF 1 > Slots THEN 0 ELSE Slots - 1 + 1
    BY <2>1, FS_Interval
  <2> QED
    BY <2>1, <2>2 DEF Slot
<1>9. Cardinality(Slot) <= Cardinality(M \cup Held)
  BY <1>4, <1>7, <1>8, Injects
<1>10. Cardinality(M) <= Cardinality(W) /\ Cardinality(Held) <= Cardinality(P)
  BY <1>2, <1>3, <1>5, <1>6, Injects
<1>11. Cardinality(W) \in Nat /\ Cardinality(P) \in Nat
  BY FS_CardinalityType
<1> QED
  BY ONLY <1>7, <1>8, <1>9, <1>10, <1>11

LEMMA RoomFound ==
  ASSUME PortConstants, Typed, Slotting, Serving, Bounded
  PROVE  /\ \A m \in Masters : master[m].at = "idle" => Room("mem")
         /\ phase = "access" /\ Top.pkt.cmd \in {"read", "write"}
              /\ ~Top.pkt.posted => Room("mem")
<1>1. /\ sent \in Nat /\ scenario.outstanding \in Nat /\ Slots \in Nat
      /\ IsFiniteSet(Masters) /\ Cardinality(Masters) \in Nat
      /\ Cardinality(Masters) + scenario.outstanding <= Slots
  BY ScenarioType, FS_CardinalityType
  DEF Typed, TypeOK, WellFormed, PortConstants
<1>2. /\ IsFiniteSet(Pending) /\ Cardinality(Pending) \in Nat
      /\ Cardinality(Pending) <= scenario.outstanding
  BY <1>1, PendingFinite DEF Bounded
<1>3. \A k \in DOMAIN frames : Waits(k) => frames[k].pkt.id \in Pending
  BY FramePends DEF Typed, Stacked
<1>4. ASSUME NEW m \in Masters, master[m].at = "idle" PROVE Room("mem")
  <2> SUFFICES ASSUME ~Room("mem") PROVE FALSE
    OBVIOUS
  <2> DEFINE W == Masters \ {m}
  <2>1. /\ IsFiniteSet(W) /\ Cardinality(W) = Cardinality(Masters) - 1
        /\ Cardinality(W) \in Nat
    BY <1>1, FS_RemoveElement, FS_CardinalityType
  <2>2. \A l \in Masters : master[l].at = "waits" => l \in W
    BY <1>4
  <2> HIDE DEF W
  <2>3. Slots <= Cardinality(W) + Cardinality(Pending)
    BY <1>2, <1>3, <2>1, <2>2, SlotsTaken
  <2> QED
    BY ONLY <1>1, <1>2, <2>1, <2>3
<1>5. ASSUME phase = "access", Top.pkt.cmd \in {"read", "write"},
             ~Top.pkt.posted
      PROVE  Room("mem")
  <2> SUFFICES ASSUME ~Room("mem") PROVE FALSE
    OBVIOUS
  <2> DEFINE n == Len(frames)
             P == Pending \ {Top.pkt.id}
  <2>1. /\ n \in DOMAIN frames /\ Top = frames[n] /\ Top.slot = -1
    <3>1. frames # <<>>
      BY <1>5 DEF Typed, Stacked
    <3>2. n \in Nat \ {0} /\ DOMAIN frames = 1 .. n /\ Top = frames[n]
      BY <3>1, Stack DEF Typed
    <3>3. n \in DOMAIN frames
      BY ONLY <3>2
    <3> QED
      BY <1>5, <3>1, <3>2, <3>3, TopWaits DEF Typed
  <2> HIDE DEF n
  <2>2. Top.pkt.id \in Pending
    BY <1>5, <2>1, FramePends
  <2>3. IsFiniteSet(P) /\ Cardinality(P) = Cardinality(Pending) - 1
        /\ Cardinality(P) \in Nat
    BY <1>2, <2>2, FS_RemoveElement, FS_CardinalityType
  <2>4. \A k \in DOMAIN frames : Waits(k) => frames[k].pkt.id \in P
    <3> SUFFICES ASSUME NEW k \in DOMAIN frames, Waits(k)
                 PROVE  frames[k].pkt.id # Top.pkt.id
      BY <1>3
    <3>1. k # n
      BY <2>1 DEF Waits
    <3> QED
      BY <2>1, <3>1 DEF Serving, Served, Requests
  <2>5. \A m \in Masters : master[m].at = "waits" => m \in Masters
    OBVIOUS
  <2> HIDE DEF P
  <2>6. Slots <= Cardinality(Masters) + Cardinality(P)
    BY <1>1, <2>3, <2>4, <2>5, SlotsTaken
  <2> QED
    BY ONLY <1>1, <1>2, <2>3, <2>6
<1> QED
  BY <1>4, <1>5

-----------------------------------------------------------------------------
(* When no second access of QEMU comes back to it while one does, the      *)
(* adaptor serves one request at a time, and never listens while the       *)
(* answer that the request waits for is in its slot.                       *)

Unready ==
  \A k \in DOMAIN frames : Waits(k) =>
    \A i \in Slot :
      resp["mem"][i].used /\ resp["mem"][i].id = frames[k].slot
        => ~resp["mem"][i].valid

Alone ==
  /\ scenario.outstanding <= 1 => \A i \in Pending : i = sent
  /\ Len(frames) <= 1
  /\ Unready

LEMMA InitAlone ==
  ASSUME Init
  PROVE  Alone
<1>1. sent = 0 /\ frames = <<>> /\ 1 .. 0 = {}
  BY DEF Init
<1> QED
  BY <1>1 DEF Alone, Pending, Unready

LEMMA PendingLast ==
  ASSUME PortConstants, Typed, Bounded, [Next]_vars,
         scenario.outstanding <= 1 => \A i \in Pending : i = sent
  PROVE  (scenario.outstanding <= 1 => \A i \in Pending : i = sent)'
<1>1. sent \in Nat /\ scenario.outstanding \in Nat /\ scenario' = scenario
  <2>1. scenario' = scenario
    BY DEF Next, vars, qemu_sends, qemu_receives, thread_locks,
           thread_notifies, say_hello, reads, receives, access, forwards,
           replies, cmd_interrupt, resumes, b_transport, response_wait,
           wire_changes, updates_wires, updated_wires
  <2> QED
    BY <2>1, ScenarioType DEF Typed, TypeOK, WellFormed
<1>2. CASE qemu_sends
  <2> DEFINE A == {i \in 1 .. sent : Awaited(i) /\ ~GotAnswer(i)}
  <2> SUFFICES ASSUME scenario.outstanding <= 1, NEW i \in Pending'
               PROVE  i = sent + 1
    BY <1>1, <1>2 DEF qemu_sends
  <2>1. /\ Cardinality(A) < scenario.outstanding
        /\ sent' = sent + 1 /\ UNCHANGED <<scenario, answers>>
    BY <1>2 DEF qemu_sends
  <2>2. A = {}
    <3>1. A \subseteq 1 .. sent
      OBVIOUS
    <3> HIDE DEF A
    <3>2. IsFiniteSet(1 .. sent)
      BY <1>1, FS_Interval
    <3>4. IsFiniteSet(A) /\ Cardinality(A) \in Nat
      BY <3>1, <3>2, FS_Subset, FS_CardinalityType
    <3>3. Cardinality(A) = 0
      BY <1>1, <2>1, <3>4
    <3> QED
      BY <3>3, <3>4, FS_EmptySet
  <2>3. i \in 1 .. sent + 1 /\ Access(i) /\ ~GotAnswer(i)
    BY <2>1 DEF Pending, Access, GotAnswer, program
  <2>4. i = sent + 1 \/ i \in 1 .. sent
    BY <1>1, <2>3
  <2>5. Awaited(i)
    BY <2>3 DEF Access, Awaited
  <2> QED
    BY <2>2, <2>3, <2>4, <2>5
<1>3. CASE ~qemu_sends
  <2>1. sent' = sent /\ Pending' \subseteq Pending
    <3>1. sent' = sent /\ \A i : GotAnswer(i) => GotAnswer(i)'
      <4>1. CASE qemu_receives
        <5> DEFINE p == Head(toQemu)
                   a == [id |-> p.id, val |-> p.val]
        <5>1. /\ toQemu # <<>> /\ sent' = sent
              /\ answers' = IF p.response THEN Append(answers, a) ELSE answers
          BY <4>1 DEF qemu_receives
        <5>2. a \in Record /\ answers \in Seq(Record)
          <6>1. p \in FramedCommand
            BY <5>1, Tailed DEF Typed, TypeOK
          <6>2. p.id \in Nat /\ p.val \in Int
            BY <6>1 DEF FramedCommand
          <6> HIDE DEF p
          <6> QED
            BY <6>2 DEF Record, Typed, TypeOK
        <5> HIDE DEF a
        <5>3. \A k \in DOMAIN answers : k \in DOMAIN answers'
                                          /\ answers'[k] = answers[k]
          BY <5>1, <5>2, Appended
        <5> QED
          BY <5>1, <5>3 DEF GotAnswer
      <4>2. CASE ~qemu_receives
        <5>1. UNCHANGED qemu
          BY <1>3, <4>2 DEF Next, vars, thread_locks,
             thread_notifies, say_hello, reads, receives, access, forwards,
             replies, cmd_interrupt, resumes, b_transport, response_wait,
             wire_changes, updates_wires, updated_wires
        <5> QED
          BY <5>1 DEF qemu, GotAnswer
      <4> QED
        BY <4>1, <4>2
    <3> QED
      BY <1>1, <3>1 DEF Pending, Access, program
  <2> QED
    BY <1>1, <2>1
<1> QED
  BY <1>2, <1>3

(* No frame waits while a request is served.                               *)
LEMMA UnreadyServing ==
  ASSUME Typed', Len(frames') <= 1,
         frames' = <<>> \/ phase' \in {"access", "delta"}
  PROVE  Unready'
<1>1. frames' \in Seq(Frame)
  BY DEF Typed, TypeOK
<1>2. Len(frames') \in Nat /\ DOMAIN frames' = 1 .. Len(frames')
  BY <1>1, LenProperties
<1>3. \A k \in DOMAIN frames' : ~(k < Len(frames'))
  BY <1>2
<1>4. \A k \in DOMAIN frames' : ~Waits(k)'
  BY <1>3 DEF Typed, Stacked
<1> QED
  BY <1>4 DEF Unready

(* No slot gets its answer.                                                *)
LEMMA UnreadySame ==
  ASSUME Unready, frames' = frames,
         \A i \in Slot : resp'["mem"][i].used /\ resp'["mem"][i].valid =>
           /\ resp["mem"][i].used /\ resp["mem"][i].valid
           /\ resp'["mem"][i].id = resp["mem"][i].id
  PROVE  Unready'
BY DEF Unready, Waits

LEMMA UnreadyTaken ==
  ASSUME Unready, frames' = frames, ValuesRight(resp, master),
         NEW d, NEW i, NEW id, Taken(resp, resp', d, i, id)
  PROVE  Unready'
<1>1. \A j \in Slot : resp'["mem"][j].valid =>
        /\ resp["mem"][j].used /\ resp["mem"][j].valid
        /\ resp'["mem"][j].id = resp["mem"][j].id
  BY DEF Taken, Others, ValuesRight, Devs
<1> QED
  BY <1>1, UnreadySame

LEMMA UnreadyFreed ==
  ASSUME Unready, frames' = frames,
         NEW d, NEW i, Freed(resp, resp', d, i)
  PROVE  Unready'
<1>1. \A j \in Slot : resp'["mem"][j].used /\ resp'["mem"][j].valid =>
        /\ resp["mem"][j].used /\ resp["mem"][j].valid
        /\ resp'["mem"][j].id = resp["mem"][j].id
  BY DEF Freed, Others, Devs
<1> QED
  BY <1>1, UnreadySame

(* rp_process returns to listen only when the answer is not there.         *)
LEMMA UnreadyReturns ==
  ASSUME Typed, Typed', Len(frames) <= 1, phase = "read",
         NEW r, Slotful(r), Returns(r)
  PROVE  Len(frames') <= 1 /\ Unready'
<1>1. CASE Listens(r)
  <2> DEFINE mine == {i \in Slot : /\ r["mem"][i].used /\ r["mem"][i].valid
                                   /\ frames # <<>>
                                   /\ r["mem"][i].id = Top.slot}
  <2>1. frames' = frames /\ resp' = r /\ phase' = "listen"
    BY <1>1 DEF Listens
  <2>2. mine = {}
    BY <2>1 DEF Returns
  <2>3. \A k \in DOMAIN frames : frames # <<>> /\ frames[k] = Top
    <3> TAKE k \in DOMAIN frames
    <3>1. frames # <<>>
      BY EmptySeq DEF Typed, TypeOK
    <3>2. /\ Len(frames) \in Nat \ {0} /\ DOMAIN frames = 1 .. Len(frames)
          /\ Top = frames[Len(frames)]
      BY <3>1, Stack DEF Typed
    <3>3. k = Len(frames)
      BY <3>2
    <3> QED
      BY <3>1, <3>2, <3>3
  <2>4. \A k \in DOMAIN frames : \A i \in Slot :
          r["mem"][i].used /\ r["mem"][i].id = frames[k].slot
            => ~r["mem"][i].valid
    BY <2>2, <2>3
  <2> QED
    BY <2>1, <2>4 DEF Unready
<1>2. CASE \E i \in Slot : Proceeds(r, i)
  <2>1. PICK i \in Slot : Proceeds(r, i)
    BY <1>2
  <2> DEFINE v == r["mem"][i].val
             F == [Top EXCEPT !.slot = -1, !.val = v]
  <2>2. v \in Int
    <3>1. r["mem"][i] \in SlotState
      BY DEF Slotful, Devs
    <3> QED
      BY <3>1 DEF SlotState
  <2>3. frames # <<>> /\ phase' = "delta" /\ frames' = Append(Pop, F)
    BY <2>1 DEF Proceeds
  <2> HIDE DEF v
  <2>4. F \in Frame
    <3>1. -1 \in Int
      OBVIOUS
    <3> QED
      BY <2>2, <2>3, <3>1, Typing DEF Typed
  <2> HIDE DEF F
  <2>5. Len(frames') = Len(frames)
    BY <2>3, <2>4, Stack DEF Typed
  <2> QED
    BY <2>3, <2>5, UnreadyServing
<1> QED
  BY <1>1, <1>2, ReturnsCases

LEMMA AloneReceives ==
  ASSUME PortConstants, NoneNested, Typed, Typed', Slotting, Serving, Alone,
         receives
  PROVE  Len(frames') <= 1 /\ Unready'
<1> DEFINE p == Head(toSc)
<1>1. /\ phase = "read" /\ toSc # <<>> /\ Len(frames) <= 1
  BY DEF receives, Alone
<1>2. \/ p.response /\ p.posted /\ Returns(resp)
      \/ p.response /\ ~p.posted /\ Returns(Answered(p))
      \/ UNCHANGED <<frames, resp>>
      \/ /\ ~p.response /\ phase' = "access"
         /\ frames' = Append(frames, [pkt |-> p, slot |-> -1, val |-> 0])
  BY DEF receives, Answered, Dropped
<1>3. CASE p.response /\ p.posted /\ Returns(resp)
  BY <1>1, <1>3, SlottingTypes, UnreadyReturns
<1>4. CASE p.response /\ ~p.posted /\ Returns(Answered(p))
  <2>1. Slotful(Answered(p))
    BY <1>1, <1>4, AnswerOwned
  <2> QED
    BY <1>1, <1>4, <2>1, UnreadyReturns
<1>5. CASE UNCHANGED <<frames, resp>>
  BY <1>1, <1>5, UnreadySame DEF Alone
<1>6. CASE /\ ~p.response /\ phase' = "access"
           /\ frames' = Append(frames, [pkt |-> p, slot |-> -1, val |-> 0])
  <2> DEFINE F == [pkt |-> p, slot |-> -1, val |-> 0]
  <2>1. F \in Frame /\ frames \in Seq(Frame)
    <3>1. p \in Command
      BY <1>1, Tailed DEF Typed, TypeOK
    <3> HIDE DEF p
    <3> QED
      BY <3>1 DEF Frame, Typed, TypeOK
  <2>2. frames' = Append(frames, F)
    BY <1>6
  <2> HIDE DEF F
  <2>3. frames = <<>>
    <3> SUFFICES ASSUME frames # <<>> PROVE FALSE
      OBVIOUS
    <3> DEFINE n == Len(frames)
    <3>1. n \in Nat \ {0} /\ DOMAIN frames = 1 .. n
      BY Stack DEF Typed
    <3>2. n \in DOMAIN frames
      BY ONLY <3>1
    <3> HIDE DEF n
    <3> DEFINE q == frames[n].pkt
    <3>3. q.cmd \in {"read", "write"} /\ q.addr = Hole /\ ~q.posted
      <4>1. Waits(n)
        BY <1>1, <3>2 DEF Typed, Stacked
      <4> QED
        BY <3>2, <4>1 DEF Typed, Stacked
    <3>4. q.id \in Pending
      BY <3>2, <3>3, FramePends
    <3>5. PICK g \in 0 .. sent : Served(g)
      BY DEF Serving
    <3>6. g + 1 \in 1 .. sent /\ q.id \in 1 .. g /\ Matches(q)
      <4>1. g + 1 \in 1 .. sent
        BY <1>1, <1>6, <3>5, NextRequest
      <4>2. q.id \in Ids(frames) /\ Matches(q)
        BY <3>2, <3>5 DEF Served, Requests, Ids
      <4>3. q.id \in 1 .. g
        BY <3>5, <4>2 DEF Served, Replied
      <4> QED
        BY <4>1, <4>2, <4>3
    <3>7. OneAtATime(scenario) /\ sent \in 0 .. Len(program)
          /\ Len(program) \in Nat /\ DOMAIN program = 1 .. Len(program)
      BY ScenarioType DEF NoneNested, Typed, TypeOK
    <3>8. CASE scenario.outstanding <= 1
      <4>1. q.id = sent
        BY <3>4, <3>8 DEF Alone
      <4> QED
        BY <3>6, <3>7, <4>1
    <3>9. CASE \A i \in DOMAIN program :
                 program[i].cmd \in {"read", "write"} /\ program[i].addr = Hole
                   => program[i].posted
      <4>1. q.id \in DOMAIN program
        BY <3>6, <3>7
      <4> QED
        BY <3>3, <3>6, <3>9, <4>1 DEF Matches
    <3> QED
      BY <3>7, <3>8, <3>9 DEF OneAtATime, program
  <2>4. Len(frames') = 1
    <3>1. Len(frames) = 0 /\ Len(frames') = Len(frames) + 1
      BY <2>1, <2>2, <2>3, Appended
    <3> QED
      BY <3>1
  <2> QED
    BY <1>6, <2>4, UnreadyServing
<1> QED
  BY <1>2, <1>3, <1>4, <1>5, <1>6

LEMMA AloneForwards ==
  ASSUME PortConstants, Typed, Typed', Slotting, Alone, forwards,
         ~Top.pkt.posted => Room("mem")
  PROVE  Len(frames') <= 1 /\ Unready'
<1> DEFINE F == [Top EXCEPT !.slot = rp_pkt_id]
<1>1. /\ phase = "access" /\ Len(frames) <= 1
      /\ IF Top.pkt.posted THEN phase' = "delta" /\ UNCHANGED <<frames, resp>>
         ELSE /\ resp' = Reserve("mem", rp_pkt_id)
              /\ frames' = Append(Pop, F)
  BY DEF forwards, Alone
<1>2. CASE Top.pkt.posted
  BY <1>1, <1>2, UnreadyServing
<1>3. CASE ~Top.pkt.posted
  <2>1. frames # <<>>
    BY <1>1 DEF Typed, Stacked
  <2>2. rp_pkt_id \in Nat /\ rp_pkt_id \in Int
    BY DEF Typed, TypeOK
  <2>3. F \in Frame /\ F.slot = rp_pkt_id
    BY <2>1, <2>2, Typing DEF Typed
  <2>4. frames' = Append(Pop, F)
    BY <1>1, <1>3
  <2> HIDE DEF F
  <2>5. /\ Len(frames') = Len(frames) /\ Len(frames) \in Nat \ {0}
        /\ DOMAIN frames' = 1 .. Len(frames)
        /\ \A k \in 1 .. Len(frames) :
             frames'[k] = IF k = Len(frames) THEN F ELSE frames[k]
    BY <2>1, <2>3, <2>4, Stack DEF Typed
  <2>6. \A k \in DOMAIN frames' : frames'[k].slot = rp_pkt_id
    <3> TAKE k \in DOMAIN frames'
    <3>1. /\ k \in 1 .. Len(frames) /\ Len(frames) \in Nat \ {0}
          /\ Len(frames) <= 1
      BY <1>1, <2>5
    <3>2. k = Len(frames)
      BY ONLY <3>1
    <3> QED
      BY <2>3, <2>5, <3>1, <3>2
  <2>7. PICK i \in Slot : Taken(resp, resp', "mem", i, rp_pkt_id)
    BY <1>1, <1>3, <2>2, SlottingTypes, ReserveTakes DEF Room, Devs
  <2>8. \A j \in Slot : resp'["mem"][j].used /\ resp'["mem"][j].id = rp_pkt_id
          => ~resp'["mem"][j].valid
    <3>1. \A j \in Slot : resp["mem"][j].used => resp["mem"][j].id # rp_pkt_id
      <4>1. \A j \in Slot : /\ resp["mem"][j].used
                              => resp["mem"][j].id < rp_pkt_id
                            /\ resp["mem"][j].id \in Nat
        BY SlottingTypes DEF Owned, NumbersOld, Slotful, SlotState, Devs
      <4> QED
        BY <2>2, <4>1
    <3>2. ~resp["mem"][i].valid
      BY <2>7, SlottingTypes DEF Taken, Owned, ValuesRight
    <3> QED
      BY <2>7, <3>1, <3>2 DEF Taken, Others, Devs
  <2>9. Unready'
    BY <2>6, <2>8 DEF Unready
  <2> QED
    BY <1>1, <2>5, <2>9
<1> QED
  BY <1>2, <1>3

LEMMA AloneStep ==
  ASSUME PortConstants, NoneNested, Typed, Typed', Slotting, Serving, Bounded,
         Alone, [Next]_vars
  PROVE  Alone'
<1>1. SUFFICES Len(frames') <= 1 /\ Unready'
  BY <1>1, PendingLast DEF Alone
<1>2. Len(frames) <= 1 /\ Unready /\ ValuesRight(resp, master)
  BY SlottingTypes DEF Alone, Owned
<1>3. ASSUME UNCHANGED <<frames, resp>> PROVE Len(frames') <= 1 /\ Unready'
  BY <1>2, <1>3, UnreadySame
<1>4. CASE UNCHANGED vars
  BY <1>3, <1>4 DEF vars
<1>5. CASE qemu_sends \/ qemu_receives \/ thread_locks \/ thread_notifies
  BY <1>3, <1>5 DEF qemu_sends, qemu_receives, thread_locks, thread_notifies
<1>6. CASE say_hello \/ reads \/ resumes
  BY <1>3, <1>6 DEF say_hello, reads, resumes
<1>7. CASE access
  <2> DEFINE F == [Top EXCEPT !.val = mem]
  <2>1. phase = "access" /\ phase' = "delta" /\ frames' = Append(Pop, F)
    BY <1>7 DEF access
  <2>2. frames # <<>> /\ mem \in Int
    BY <2>1 DEF Typed, Stacked, TypeOK
  <2>3. F \in Frame
    BY <2>2, Typing DEF Typed
  <2> HIDE DEF F
  <2>4. Len(frames') = Len(frames)
    BY <2>1, <2>2, <2>3, Stack DEF Typed
  <2> QED
    BY <1>2, <2>1, <2>4, UnreadyServing
<1>8. CASE forwards
  <2>1. phase = "access" /\ Top.pkt.cmd \in {"read", "write"}
    BY <1>8 DEF forwards
  <2>2. ~Top.pkt.posted => Room("mem")
    BY <2>1, RoomFound
  <2> QED
    BY <1>8, <2>2, AloneForwards
<1>9. CASE replies \/ cmd_interrupt
  <2>1. phase \in {"access", "delta"} /\ frames' = Pop
    BY <1>9 DEF replies, cmd_interrupt
  <2>2. /\ Len(frames) \in Nat \ {0} /\ frames' \in Seq(Frame)
        /\ Len(frames') = Len(frames) - 1
    BY <2>1, Stack DEF Typed, Stacked
  <2>3. Len(frames') = 0
    BY <1>2, <2>2
  <2>4. frames' = <<>>
    BY <2>2, <2>3, EmptySeq
  <2> QED
    BY <2>3, <2>4, UnreadyServing
<1>10. ASSUME NEW m \in Masters, b_transport(m)
       PROVE  Len(frames') <= 1 /\ Unready'
  <2>1. frames' = frames /\ master[m].at = "idle"
        /\ (resp' = resp \/ resp' = Reserve("mem", rp_pkt_id))
    BY <1>10 DEF b_transport
  <2>2. CASE resp' = resp
    BY <1>3, <2>1, <2>2
  <2>3. CASE resp' = Reserve("mem", rp_pkt_id)
    <3>1. rp_pkt_id \in Nat /\ "mem" \in Devs
      BY DEF Typed, TypeOK, Devs
    <3>2. \E i \in Slot : ~resp["mem"][i].used
      BY <2>1, RoomFound DEF Room
    <3>3. PICK i \in Slot : Taken(resp, resp', "mem", i, rp_pkt_id)
      BY <2>3, <3>1, <3>2, SlottingTypes, ReserveTakes
    <3> QED
      BY <1>2, <2>1, <3>3, UnreadyTaken
  <2> QED
    BY <2>1, <2>2, <2>3
<1>11. ASSUME NEW m \in Masters, response_wait(m)
       PROVE  Len(frames') <= 1 /\ Unready'
  <2>1. /\ frames' = frames /\ Ready("mem", master[m].id)
        /\ resp' = response_done("mem", master[m].id)
    BY <1>11 DEF response_wait
  <2>2. PICK i \in Slot : Freed(resp, resp', "mem", i)
    BY <2>1, ReadyValue DEF Devs
  <2> QED
    BY <1>2, <2>1, <2>2, UnreadyFreed
<1>12. CASE \E w \in Wires : wire_changes(w)
  BY <1>3, <1>12 DEF wire_changes
<1>13. CASE updates_wires
  <2>1. /\ frames' = frames /\ wire_update.at = "idle"
        /\ \/ resp' = resp
           \/ resp' = Reserve("wires", rp_pkt_id + Len(Updates(changed)) - 1)
    BY <1>13 DEF updates_wires
  <2>2. CASE resp' = resp
    BY <1>3, <2>1, <2>2
  <2>3. CASE resp' = Reserve("wires", rp_pkt_id + Len(Updates(changed)) - 1)
    <3> DEFINE id == rp_pkt_id + Len(Updates(changed)) - 1
    <3>1. id \in Nat /\ "wires" \in Devs
      <4>1. rp_pkt_id \in Nat /\ Len(Updates(changed)) \in Nat \ {0}
        BY <1>13, UpdatesSent DEF Typed, TypeOK
      <4>2. id \in Nat
        BY ONLY <4>1
      <4> QED
        BY <4>2 DEF Devs
    <3>2. \E i \in Slot : ~resp["wires"][i].used
      <4>1. \A i \in Slot : ~resp["wires"][i].used
        BY <2>1, SlottingTypes DEF Owned, SlotsOwned
      <4>2. 1 \in Slot
        <5>1. Slots \in Nat \ {0}
          BY DEF PortConstants
        <5> QED
          BY <5>1 DEF Slot
      <4> QED
        BY <4>1, <4>2
    <3> HIDE DEF id
    <3>3. resp' = Reserve("wires", id)
      BY <2>3 DEF id
    <3>4. PICK i \in Slot : Taken(resp, resp', "wires", i, id)
      BY <3>1, <3>2, <3>3, SlottingTypes, ReserveTakes
    <3> QED
      BY <1>2, <2>1, <3>4, UnreadyTaken
  <2> QED
    BY <2>1, <2>2, <2>3
<1>14. CASE updated_wires
  <2>1. /\ frames' = frames /\ Ready("wires", wire_update.id)
        /\ resp' = response_done("wires", wire_update.id)
    BY <1>14 DEF updated_wires
  <2>2. PICK i \in Slot : Freed(resp, resp', "wires", i)
    BY <2>1, ReadyValue DEF Devs
  <2> QED
    BY <1>2, <2>1, <2>2, UnreadyFreed
<1> QED
  BY <1>4, <1>5, <1>6, <1>7, <1>8, <1>9, <1>10, <1>11, <1>12, <1>13, <1>14,
     AloneReceives DEF Next

-----------------------------------------------------------------------------
(* What QEMU hears of the wires: the last update of a wire that has not    *)
(* changed since carries its level.                                        *)

IsUpdate(p, w) == ~p.response /\ p.cmd = "interrupt" /\ p.addr = w
Silent(qe, w) == \A p \in Elems(qe) : ~IsUpdate(p, w)
Tells(qe, w, v) ==
  \E i \in DOMAIN qe :
    /\ IsUpdate(qe[i], w) /\ qe[i].val = v
    /\ \A j \in DOMAIN qe : IsUpdate(qe[j], w) => j <= i
Hears(qe, sn, w, v) == Tells(qe, w, v) \/ (Silent(qe, w) /\ sn[w] = v)

Heard ==
  scenario.posted_updates =>
    /\ wire_update.at = "idle"
    /\ \A w \in Wires \ changed : Hears(toQemu, seen, w, level[w])

LEMMA InitHeard ==
  ASSUME Init
  PROVE  Heard
<1>1. /\ wire_update.at = "idle" /\ toQemu = <<>>
      /\ \A w \in Wires : seen[w] = level[w]
  BY DEF Init, Idle
<1> QED
  BY <1>1 DEF Heard, Hears, Silent, Elems

LEMMA HearsQuietly ==
  ASSUME NEW qe \in Seq(FramedCommand), NEW s \in Seq(FramedCommand),
         NEW sn, NEW w, NEW v, Hears(qe, sn, w, v), Silent(s, w)
  PROVE  Hears(qe \o s, sn, w, v)
<1> DEFINE t == qe \o s
<1>1. /\ Elems(t) = Elems(qe) \cup Elems(s)
      /\ \A i \in DOMAIN t :
           (i \in DOMAIN qe /\ t[i] = qe[i]) \/ t[i] \in Elems(s)
      /\ \A i \in DOMAIN qe : i \in DOMAIN t /\ t[i] = qe[i]
  <2>1. /\ Elems(t) = Elems(qe) \cup Elems(s) /\ DOMAIN qe = 1 .. Len(qe)
        /\ \A i \in 1 .. Len(qe) : t[i] = qe[i]
        /\ \A i \in DOMAIN t : i \notin DOMAIN qe =>
             i - Len(qe) \in DOMAIN s /\ t[i] = s[i - Len(qe)]
    BY Joined
  <2>2. \A i \in DOMAIN qe : i \in DOMAIN t
    BY Joined
  <2> HIDE DEF t
  <2> QED
    BY <2>1, <2>2 DEF Elems
<1> HIDE DEF t
<1>2. Tells(qe, w, v) => Tells(t, w, v)
  BY <1>1 DEF Tells, Silent
<1>3. Silent(qe, w) => Silent(t, w)
  BY <1>1 DEF Silent
<1>4. Hears(t, sn, w, v)
  BY <1>2, <1>3 DEF Hears
<1> QED
  BY <1>4 DEF t

LEMMA HearsUpdate ==
  ASSUME NEW qe \in Seq(FramedCommand), NEW s \in Seq(FramedCommand),
         NEW w, NEW v, NEW k \in DOMAIN s,
         IsUpdate(s[k], w), s[k].val = v,
         \A l \in DOMAIN s : IsUpdate(s[l], w) => l = k
  PROVE  Tells(qe \o s, w, v)
<1> DEFINE t == qe \o s
           n == Len(qe)
<1>1. /\ n \in Nat /\ DOMAIN qe = 1 .. n /\ k \in Nat
      /\ n + k \in DOMAIN t /\ t[n + k] = s[k]
      /\ \A i \in DOMAIN t : i \notin DOMAIN qe =>
           i - n \in DOMAIN s /\ t[i] = s[i - n]
      /\ DOMAIN t \subseteq Int /\ k >= 1
  <2>1. /\ n \in Nat /\ DOMAIN qe = 1 .. n /\ Len(s) \in Nat
        /\ DOMAIN s = 1 .. Len(s) /\ t \in Seq(FramedCommand)
        /\ \A i \in DOMAIN t : i \notin DOMAIN qe =>
             i - n \in DOMAIN s /\ t[i] = s[i - n]
    BY Joined
  <2>2. \A i \in DOMAIN s : n + i \in DOMAIN t /\ t[n + i] = s[i]
    BY Joined
  <2>3. DOMAIN t \subseteq Int
    <3>1. Len(t) \in Nat /\ DOMAIN t = 1 .. Len(t)
      BY <2>1, LenProperties
    <3> QED
      BY <3>1
  <2>4. k \in 1 .. Len(s)
    BY <2>1
  <2> HIDE DEF t, n
  <2> QED
    BY <2>1, <2>2, <2>3, <2>4
<1> HIDE DEF t, n
<1>2. \A j \in DOMAIN t : IsUpdate(t[j], w) => j <= n + k
  <2> TAKE j \in DOMAIN t
  <2> HAVE IsUpdate(t[j], w)
  <2>1. CASE j \in DOMAIN qe
    BY <1>1, <2>1
  <2>2. CASE j \notin DOMAIN qe
    <3>1. j - n = k /\ j \in Int
      BY <1>1, <2>2
    <3> QED
      BY <1>1, <3>1
  <2> QED
    BY <2>1, <2>2
<1>3. Tells(t, w, v)
  BY <1>1, <1>2 DEF Tells
<1> QED
  BY <1>3 DEF t

LEMMA HearsTaken ==
  ASSUME NEW qe \in Seq(FramedCommand), qe # <<>>,
         NEW sn \in [Wires -> Int], NEW w \in Wires, NEW v,
         Hears(qe, sn, w, v), NEW t,
         t = IF Head(qe).cmd = "interrupt" /\ ~Head(qe).response
             THEN [sn EXCEPT ![Head(qe).addr] = Head(qe).val] ELSE sn
  PROVE  Hears(Tail(qe), t, w, v)
<1> DEFINE u == Tail(qe)
           e == Head(qe)
<1>1. /\ e = qe[1] /\ DOMAIN qe = 1 .. Len(qe) /\ Len(qe) \in Nat \ {0}
      /\ DOMAIN u = 1 .. Len(qe) - 1
      /\ \A i \in 1 .. Len(qe) - 1 : u[i] = qe[i + 1]
      /\ Elems(qe) = Elems(u) \cup {e}
  BY Tailed
<1>2. /\ IsUpdate(e, w) => t[w] = e.val
      /\ ~IsUpdate(e, w) => t[w] = sn[w]
  BY DEF IsUpdate
<1> HIDE DEF u, e
<1>3. \A i \in DOMAIN u : i + 1 \in DOMAIN qe /\ u[i] = qe[i + 1] /\ i \in Int
  BY <1>1
<1>4. \A i \in DOMAIN qe :
        i \in Int /\ (i # 1 => i - 1 \in DOMAIN u /\ u[i - 1] = qe[i])
  <2> TAKE i \in DOMAIN qe
  <2>1. i \in Int
    BY <1>1
  <2>2. CASE i # 1
    <3>1. i - 1 \in 1 .. Len(qe) - 1 /\ (i - 1) + 1 = i
      BY <1>1, <2>2
    <3> QED
      BY <1>1, <2>1, <3>1
  <2> QED
    BY <2>1, <2>2
<1>5. CASE Silent(qe, w) /\ sn[w] = v
  <2>1. Silent(u, w) /\ ~IsUpdate(e, w)
    BY <1>1, <1>5 DEF Silent
  <2> QED
    BY <1>2, <1>5, <2>1 DEF Hears, u
<1>6. CASE Tells(qe, w, v)
  <2>1. PICK i \in DOMAIN qe :
          /\ IsUpdate(qe[i], w) /\ qe[i].val = v
          /\ \A j \in DOMAIN qe : IsUpdate(qe[j], w) => j <= i
    BY <1>6 DEF Tells
  <2>2. CASE i = 1
    <3>1. t[w] = v
      BY <1>1, <1>2, <2>1, <2>2
    <3>2. Silent(u, w)
      <4>1. \A j \in DOMAIN u : ~IsUpdate(u[j], w)
        <5> TAKE j \in DOMAIN u
        <5>1. j + 1 \in DOMAIN qe /\ u[j] = qe[j + 1] /\ ~(j + 1 <= 1)
          BY <1>1, <1>3
        <5> QED
          BY <2>1, <2>2, <5>1
      <4> QED
        BY <4>1 DEF Silent, Elems
    <3> QED
      BY <3>1, <3>2 DEF Hears, u
  <2>3. CASE i # 1
    <3>1. i - 1 \in DOMAIN u /\ u[i - 1] = qe[i] /\ i \in Int
      BY <1>4, <2>3
    <3>2. \A j \in DOMAIN u : IsUpdate(u[j], w) => j <= i - 1
      <4> TAKE j \in DOMAIN u
      <4> HAVE IsUpdate(u[j], w)
      <4>1. j + 1 \in DOMAIN qe /\ u[j] = qe[j + 1] /\ j \in Int
        BY <1>3
      <4>2. j + 1 <= i
        BY <2>1, <4>1
      <4> QED
        BY <3>1, <4>1, <4>2
    <3>3. Tells(u, w, v)
      BY <2>1, <3>1, <3>2 DEF Tells
    <3> QED
      BY <3>3 DEF Hears, u
  <2> QED
    BY <2>2, <2>3
<1> QED
  BY <1>5, <1>6 DEF Hears, u

(* A packet that is no update, or none.                                    *)
Mute(qe, s) ==
  s = qe \/ \E e \in FramedCommand :
              s = Append(qe, e) /\ (e.response \/ e.cmd # "interrupt")

LEMMA MuteHears ==
  ASSUME NEW qe \in Seq(FramedCommand), NEW s, Mute(qe, s),
         NEW sn, NEW w, NEW v, Hears(qe, sn, w, v)
  PROVE  Hears(s, sn, w, v)
<1>1. ASSUME NEW e \in FramedCommand, s = Append(qe, e),
             e.response \/ e.cmd # "interrupt"
      PROVE  Hears(s, sn, w, v)
  <2> DEFINE t == <<e>>
  <2>1. s = qe \o t /\ t \in Seq(FramedCommand) /\ Elems(t) = {e}
    BY <1>1, OneSent
  <2> HIDE DEF t
  <2>2. Silent(t, w)
    BY <1>1, <2>1 DEF Silent, IsUpdate
  <2> QED
    BY <2>1, <2>2, HearsQuietly
<1> QED
  BY <1>1 DEF Mute

LEMMA MuteHello ==
  ASSUME Typed, say_hello
  PROVE  Mute(toQemu, toQemu')
<1> DEFINE q == Packet("hello", rp_pkt_id, "mem", FALSE, FALSE, 0, 0)
           e == rp_encode_other(q, 20)
<1>1. toQemu' = Append(toQemu, e)
  BY DEF say_hello
<1>2. q \in Command
  <2>1. rp_pkt_id \in Nat
    BY DEF Typed, TypeOK
  <2>2. "hello" \in Cmds /\ "mem" \in Devs \cup {"qemu"} /\ FALSE \in BOOLEAN
        /\ 0 \in Int
    BY DEF Cmds, Devs
  <2> QED
    BY <2>1, <2>2, PacketType
<1>3. q.cmd # "interrupt"
  BY DEF Packet
<1> HIDE DEF q
<1>4. e \in FramedCommand /\ e.cmd # "interrupt"
  BY <1>2, <1>3, OtherFramed DEF Carries
<1> HIDE DEF e
<1> QED
  BY <1>1, <1>4 DEF Mute

LEMMA MuteReceives ==
  ASSUME Typed, receives
  PROVE  Mute(toQemu, toQemu')
<1> DEFINE p == Head(toSc)
           a == Answer(p, 0)
           e == rp_encode_other(a, 8)
<1>1. toSc # <<>> /\ (toQemu' = toQemu \/ toQemu' = Append(toQemu, e))
  BY DEF receives
<1>2. p \in Command
  BY <1>1, Tailed DEF Typed, TypeOK
<1> HIDE DEF p
<1>3. a \in Command
  <2>1. p \in Command \cup FramedCommand /\ 0 \in Int
    BY <1>2
  <2> QED
    BY <2>1, AnswerType
<1>4. a.response = TRUE
  BY DEF Answer, Packet
<1> HIDE DEF a
<1>5. e \in FramedCommand /\ e.response
  BY <1>3, <1>4, OtherFramed DEF Carries
<1> HIDE DEF e
<1> QED
  BY <1>1, <1>5 DEF Mute

LEMMA MuteForwards ==
  ASSUME Typed, forwards
  PROVE  Mute(toQemu, toQemu')
<1> DEFINE q == Packet(Top.pkt.cmd, rp_pkt_id, "mem", FALSE, Top.pkt.posted,
                       0, Top.pkt.val)
           e == rp_encode_busaccess(caps, q, 4, 0)
<1>1. /\ phase = "access" /\ Top.pkt.cmd \in {"read", "write"}
      /\ toQemu' = Append(toQemu, e)
  BY DEF forwards
<1>2. frames # <<>>
  BY <1>1 DEF Typed, Stacked
<1>3. Top.pkt \in Command
  BY <1>2, Typing DEF Typed
<1>4. q \in Command /\ q.cmd \in {"read", "write"}
  <2>1. /\ Top.pkt.cmd \in Cmds /\ "mem" \in Devs \cup {"qemu"}
        /\ FALSE \in BOOLEAN /\ Top.pkt.posted \in BOOLEAN /\ 0 \in Int
        /\ Top.pkt.val \in Int /\ rp_pkt_id \in Nat
    BY <1>3 DEF Command, Devs, Typed, TypeOK
  <2>2. q \in Command
    BY <2>1, PacketType
  <2>3. q.cmd = Top.pkt.cmd
    BY DEF Packet
  <2> QED
    BY <1>1, <2>2, <2>3
<1> HIDE DEF q
<1>5. e \in FramedCommand /\ e.cmd # "interrupt"
  <2>1. 0 \in {0, 4}
    OBVIOUS
  <2> QED
    BY <1>4, <2>1, BusFramed DEF Carries
<1> HIDE DEF e
<1> QED
  BY <1>1, <1>5 DEF Mute

LEMMA MuteReplies ==
  ASSUME Typed, replies
  PROVE  Mute(toQemu, toQemu')
<1> DEFINE a == Answer(Top.pkt, Top.val)
           e == rp_encode_busaccess(caps, a, 4, 0)
<1>1. /\ phase = "delta"
      /\ toQemu' = IF Answers(Top.pkt) THEN Append(toQemu, e) ELSE toQemu
  BY DEF replies
<1>2. frames # <<>> /\ Top.pkt.cmd \in {"read", "write"}
  BY <1>1 DEF Typed, Stacked
<1>3. Top.pkt \in Command \cup FramedCommand /\ Top.val \in Int
  BY <1>2, Typing DEF Typed
<1>4. a \in Command
  BY <1>3, AnswerType
<1>5. a.response = TRUE /\ a.cmd = Top.pkt.cmd
  BY DEF Answer, Packet
<1> HIDE DEF a
<1>6. e \in FramedCommand /\ e.response
  <2>1. 0 \in {0, 4}
    OBVIOUS
  <2> QED
    BY <1>2, <1>4, <1>5, <2>1, BusFramed DEF Carries
<1> HIDE DEF e
<1> QED
  BY <1>1, <1>6 DEF Mute

LEMMA MuteInterrupt ==
  ASSUME Typed, cmd_interrupt
  PROVE  Mute(toQemu, toQemu')
<1> DEFINE a == Answer(Top.pkt, 0)
           e == rp_encode_other(a, 21)
<1>1. /\ phase = "access"
      /\ toQemu' = IF AnswersWire(Top.pkt) THEN Append(toQemu, e) ELSE toQemu
  BY DEF cmd_interrupt
<1>2. frames # <<>>
  BY <1>1 DEF Typed, Stacked
<1>7. TypeOK /\ Stacked
  BY DEF Typed
<1>8. Top.pkt \in Command
  BY <1>2, <1>7, Typing
<1>3. Top.pkt \in Command \cup FramedCommand
  BY <1>8
<1>9. 0 \in Int
  OBVIOUS
<1>4. a \in Command
  BY <1>3, <1>9, AnswerType
<1>5. a.response = TRUE
  BY DEF Answer, Packet
<1> HIDE DEF a
<1>6. e \in FramedCommand /\ e.response
  BY <1>4, <1>5, OtherFramed DEF Carries
<1> HIDE DEF e
<1> QED
  BY <1>1, <1>6 DEF Mute

LEMMA MuteTransport ==
  ASSUME PortConstants, Typed, NEW m \in Masters, b_transport(m)
  PROVE  Mute(toQemu, toQemu')
<1>1. \/ toQemu' = toQemu
      \/ \E q \in Command, be \in {0, 4} :
           q.cmd \in {"read", "write"} /\ Transport(m, q, be)
  BY TransportCases DEF Typed
<1>2. ASSUME NEW q \in Command, NEW be \in {0, 4},
             q.cmd \in {"read", "write"}, Transport(m, q, be)
      PROVE  Mute(toQemu, toQemu')
  <2> DEFINE e == rp_encode_busaccess(caps, q, 4, be)
  <2>1. /\ be # 0 => "ext_base" \in caps
        /\ toQemu' = Append(toQemu, e)
    BY <1>2, Enables DEF Transport, Typed
  <2>2. e \in FramedCommand /\ e.cmd # "interrupt"
    BY <1>2, <2>1, BusFramed DEF Carries
  <2> HIDE DEF e
  <2> QED
    BY <2>1, <2>2 DEF Mute
<1> QED
  BY <1>1, <1>2 DEF Mute

(* A step that tells QEMU of no wire, and changes none.                    *)
LEMMA HeardSame ==
  ASSUME Typed, Heard,
         UNCHANGED <<scenario, seen, level, changed, wire_update>>,
         Mute(toQemu, toQemu')
  PROVE  Heard'
<1>1. toQemu \in Seq(FramedCommand)
  BY DEF Typed, TypeOK
<1>2. \A w, v : Hears(toQemu, seen, w, v) => Hears(toQemu', seen, w, v)
  BY <1>1, MuteHears
<1> QED
  BY <1>2 DEF Heard

LEMMA HeardQemu ==
  ASSUME Typed, Heard, qemu_receives
  PROVE  Heard'
<1> DEFINE p == Head(toQemu)
<1>1. /\ toQemu # <<>> /\ toQemu' = Tail(toQemu)
      /\ seen' = IF p.cmd = "interrupt" /\ ~p.response
                 THEN [seen EXCEPT ![p.addr] = p.val] ELSE seen
      /\ UNCHANGED <<scenario, level, changed, wire_update>>
  BY DEF qemu_receives, wires
<1>2. toQemu \in Seq(FramedCommand) /\ seen \in [Wires -> Int]
  BY DEF Typed, TypeOK
<1>3. \A w \in Wires : Hears(toQemu, seen, w, level[w])
                         => Hears(Tail(toQemu), seen', w, level[w])
  BY <1>1, <1>2, HearsTaken
<1> QED
  BY <1>1, <1>3 DEF Heard

LEMMA HeardChanges ==
  ASSUME Typed, Heard, NEW w \in Wires, wire_changes(w)
  PROVE  Heard'
<1>1. /\ level' = [level EXCEPT ![w] = 1 - @]
      /\ changed' = IF wire_update.at = "idle" THEN changed \cup {w}
                    ELSE changed
      /\ UNCHANGED <<scenario, toQemu, seen, wire_update>>
  BY DEF wire_changes, qemu
<1>2. \A v \in Wires : v # w => level'[v] = level[v]
  BY <1>1 DEF Typed, TypeOK
<1> QED
  BY <1>1, <1>2 DEF Heard

LEMMA HeardUpdates ==
  ASSUME PortConstants, Typed, Heard, updates_wires
  PROVE  Heard'
<1> DEFINE ws == Updates(changed)
           n == Len(ws)
           s == UpdatePackets
<1>1. /\ s \in Seq(FramedCommand) /\ DOMAIN s = 1 .. n
      /\ ws \in Seq(changed) /\ DOMAIN ws = 1 .. n
      /\ \A w \in changed : \E k \in 1 .. n : ws[k] = w
      /\ \A k, l \in 1 .. n : ws[k] = ws[l] => k = l
      /\ \A k \in 1 .. n : /\ s[k].cmd = "interrupt" /\ ~s[k].response
                           /\ s[k].addr = ws[k] /\ s[k].val = level[ws[k]]
      /\ toQemu' = toQemu \o s /\ changed' = {}
      /\ IF "wire_posted_updates" \in caps /\ ~scenario.posted_updates
         THEN TRUE ELSE wire_update' = wire_update
      /\ UNCHANGED <<scenario, qemu, level>>
  BY UpdatesSent DEF Typed
<1>2. toQemu \in Seq(FramedCommand)
  BY DEF Typed, TypeOK
<1>3. \A k \in 1 .. n : ws[k] \in changed
  BY <1>1, ElementOfSeq, LenProperties
<1> HIDE DEF ws, n, s
<1>4. ASSUME NEW w \in changed PROVE Hears(toQemu \o s, seen, w, level[w])
  <2>1. PICK k \in 1 .. n : ws[k] = w
    BY <1>1
  <2>2. /\ k \in DOMAIN s /\ IsUpdate(s[k], w) /\ s[k].val = level[w]
        /\ \A l \in DOMAIN s : IsUpdate(s[l], w) => l = k
    BY <1>1, <2>1 DEF IsUpdate
  <2>3. Tells(toQemu \o s, w, level[w])
    BY <1>1, <1>2, <2>2, HearsUpdate
  <2> QED
    BY <2>3 DEF Hears
<1>5. ASSUME NEW w \in Wires, w \notin changed,
             Hears(toQemu, seen, w, level[w])
      PROVE  Hears(toQemu \o s, seen, w, level[w])
  <2>1. Silent(s, w)
    BY <1>1, <1>3, <1>5 DEF Silent, Elems, IsUpdate
  <2> QED
    BY <1>1, <1>2, <1>5, <2>1, HearsQuietly
<1> QED
  BY <1>1, <1>4, <1>5 DEF Heard, qemu

LEMMA HeardStep ==
  ASSUME PortConstants, Typed, Heard, [Next]_vars
  PROVE  Heard'
<1>1. Mute(toQemu, toQemu)
  BY DEF Mute
<1>2. CASE UNCHANGED vars
  BY <1>1, <1>2, HeardSame DEF vars, qemu, wires
<1>3. CASE qemu_sends \/ thread_locks \/ thread_notifies \/ reads \/ resumes
  BY <1>1, <1>3, HeardSame
  DEF qemu_sends, thread_locks, thread_notifies, reads, resumes, qemu, wires
<1>4. CASE say_hello
  BY <1>4, MuteHello, HeardSame DEF say_hello, qemu, wires
<1>5. CASE receives
  BY <1>5, MuteReceives, HeardSame DEF receives, qemu, wires
<1>6. CASE access
  BY <1>1, <1>6, HeardSame DEF access, qemu, wires
<1>7. CASE forwards
  BY <1>7, MuteForwards, HeardSame DEF forwards, qemu, wires
<1>8. CASE replies
  BY <1>8, MuteReplies, HeardSame DEF replies, qemu, wires
<1>9. CASE cmd_interrupt
  BY <1>9, MuteInterrupt, HeardSame DEF cmd_interrupt, qemu, wires
<1>10. ASSUME NEW m \in Masters, b_transport(m) PROVE Heard'
  <2>1. UNCHANGED <<scenario, seen, level, changed, wire_update>>
    BY <1>10, TransportCases DEF Typed, qemu, wires
  <2> QED
    BY <1>10, <2>1, MuteTransport, HeardSame
<1>11. ASSUME NEW m \in Masters, response_wait(m) PROVE Heard'
  BY <1>1, <1>11, HeardSame DEF response_wait, qemu, wires
<1>12. CASE updated_wires
  <2>1. /\ wire_update.at = "waits" /\ toQemu' = toQemu
        /\ UNCHANGED scenario
    BY <1>12 DEF updated_wires
  <2> QED
    BY <2>1 DEF Heard
<1> QED
  BY <1>2, <1>3, <1>4, <1>5, <1>6, <1>7, <1>8, <1>9, <1>10, <1>11, <1>12,
     HeardQemu, HeardChanges, HeardUpdates DEF Next

-----------------------------------------------------------------------------
(* The invariant.                                                          *)

Inv == Typed /\ Slotting /\ Serving /\ Bounded

LEMMA InitBounded ==
  ASSUME PortConstants, Init
  PROVE  Bounded
<1>1. sent = 0 /\ scenario.outstanding \in Nat
  BY ScenarioType DEF Init, WellFormed
<1>2. Pending = {}
  <2>1. 1 .. 0 = {}
    OBVIOUS
  <2> QED
    BY <1>1, <2>1 DEF Pending
<1>3. Cardinality(Pending) = 0
  BY <1>2, FS_EmptySet
<1> QED
  BY <1>1, <1>3 DEF Bounded

LEMMA InvStep ==
  ASSUME PortConstants, Inv, [Next]_vars
  PROVE  Inv'
<1> USE DEF Inv
<1>1. Typed' /\ Serving' /\ Bounded'
  BY TypedStep, ServingStep, BoundedStep
<1>2. Slotting'
  BY RoomFound, SlottingStep
<1> QED
  BY <1>1, <1>2

LEMMA InvAlways ==
  ASSUME PortConstants
  PROVE  Spec => []Inv
<1>1. Init => Inv
  BY InitTyped, InitSlotting, InitServing, InitBounded DEF Inv
<1>2. Inv /\ [Next]_vars => Inv'
  BY InvStep
<1> QED
  BY <1>1, <1>2, PTL DEF Spec

LEMMA AnswersFindTheirSlot ==
  ASSUME Inv
  PROVE  ResponsesExpected
<1>1. OneEach(resp) /\ AnswersExpected(resp, toSc)
  BY SlottingTypes DEF Inv, Flying
<1> SUFFICES ASSUME NEW i \in DOMAIN toSc, toSc[i].response, ~toSc[i].posted
             PROVE  Cardinality(response_lookup(toSc[i].dev, toSc[i].id)) = 1
  BY DEF ResponsesExpected
<1> DEFINE p == toSc[i]
           found == response_lookup(p.dev, p.id)
<1>2. p \in Elems(toSc) /\ Responds(p)
  BY DEF Elems, Responds
<1>3. Expected(resp, p.dev, p.id)
  BY <1>1, <1>2 DEF AnswersExpected
<1>4. p.dev \in Devs
  BY <1>3 DEF Expected
<1>5. PICK j \in Slot : resp[p.dev][j].used /\ resp[p.dev][j].id = p.id
  BY <1>3 DEF Expected
<1>6. \A k : k \in found <=> k \in {j}
  BY <1>1, <1>4, <1>5 DEF OneEach, response_lookup
<1>7. found = {j}
  BY <1>6
<1> QED
  BY <1>7, FS_Singleton

LEMMA SlotsAreWaitedFor ==
  ASSUME Inv
  PROVE  ThreadsGetTheirs
<1>1. /\ SlotsOwned(resp, master, Held, wire_update)
      /\ ValuesRight(resp, master)
  BY SlottingTypes DEF Inv, Owned
<1>2. \A m \in Masters :
        master[m].val # 0 => master[m].val = Told(master[m].id)
  BY <1>1 DEF ValuesRight
<1>3. ASSUME NEW d \in Devs, NEW i \in Slot, resp[d][i].used
      PROVE  \/ \E m \in Masters : /\ master[m].at = "waits"
                                   /\ master[m].id = resp[d][i].id
             \/ \E k \in DOMAIN frames : frames[k].slot = resp[d][i].id
             \/ wire_update.at = "waits" /\ wire_update.id = resp[d][i].id
  <2>1. CASE d = "wires"
    BY <1>1, <1>3, <2>1 DEF SlotsOwned
  <2>2. CASE d = "mem"
    BY <1>1, <1>3, <2>2 DEF SlotsOwned, Held
  <2> QED
    BY <2>1, <2>2 DEF Devs
<1> QED
  BY <1>2, <1>3 DEF ThreadsGetTheirs

LEMMA AnswersRight ==
  ASSUME Inv
  PROVE  QemuAnswered
<1>1. PICK g \in 0 .. sent : Served(g)
  BY DEF Inv, Serving
<1>2. /\ \A a \in Elems(answers) : Proper(a.id, a.val)
      /\ \A i, j \in DOMAIN answers : answers[i].id = answers[j].id => i = j
  BY <1>1 DEF Served, Replied
<1>3. \A k \in DOMAIN answers : Proper(answers[k].id, answers[k].val)
  BY <1>2 DEF Elems
<1> QED
  BY <1>2, <1>3 DEF QemuAnswered, Proper

-----------------------------------------------------------------------------
(* The adaptor at rest.                                                    *)

LEMMA NothingComes ==
  ASSUME Inv, Quiet
  PROVE  /\ Elems(toSc) = {} /\ Elems(toQemu) = {}
         /\ \A i \in Slot : resp["mem"][i].used => resp["mem"][i].valid
<1>1. Elems(toSc) = {} /\ Elems(toQemu) = {}
  BY DEF Quiet, Elems
<1>2. OnTheWay(resp, toSc, toQemu)
  BY SlottingTypes DEF Inv, Flying
<1>3. \A i \in Slot : resp["mem"][i].used => resp["mem"][i].valid
  BY <1>1, <1>2 DEF OnTheWay, Comes, Devs
<1> QED
  BY <1>1, <1>3

LEMMA NoFrameLeft ==
  ASSUME Inv, Alone, Quiet
  PROVE  frames = <<>>
<1> SUFFICES ASSUME frames # <<>> PROVE FALSE
  OBVIOUS
<1>1. TypeOK /\ Stacked
  BY DEF Inv, Typed
<1>2. phase \notin {"access", "delta"}
  BY DEF Quiet
<1>3. Top.slot # -1 /\ Top.slot \in Held
  BY <1>1, <1>2, TopWaits
<1>4. Len(frames) \in DOMAIN frames /\ Top = frames[Len(frames)]
  BY <1>1, Stack
<1>5. Waits(Len(frames))
  BY <1>3, <1>4 DEF Waits
<1>6. PICK i \in Slot : resp["mem"][i].used /\ resp["mem"][i].id = Top.slot
  BY <1>3, SlottingTypes DEF Inv, Owned, OwnersServed
<1>7. ~resp["mem"][i].valid
  BY <1>4, <1>5, <1>6 DEF Alone, Unready
<1> QED
  BY <1>6, <1>7, NothingComes

LEMMA AllTaken ==
  ASSUME PortConstants, Inv, Quiet, frames = <<>>
  PROVE  /\ \A i \in 1 .. sent : Awaited(i) => GotAnswer(i)
         /\ out = Raised(sent + 1)
<1>1. PICK g \in 0 .. sent : Served(g)
  BY DEF Inv, Serving
<1>2. sent \in Nat
  BY ScenarioType DEF Inv, Typed, TypeOK
<1>3. g = sent
  <2>1. DOMAIN toSc = {}
    BY DEF Quiet
  <2>2. \A k \in g + 1 .. sent : FALSE
    BY <1>1, <2>1 DEF Served, Unread
  <2> QED
    BY <1>2, <2>2
<1>4. Ids(frames) = {} /\ Elems(toQemu) = {}
  BY NothingComes DEF Ids
<1>5. \A i \in 1 .. g : ~(Awaited(i) /\ Open(toQemu, answers, i))
  BY <1>1, <1>4 DEF Served, Replied
<1>6. \A i : Open(toQemu, answers, i) <=> ~GotAnswer(i)
  BY <1>4 DEF Open, Got, GotAnswer
<1>7. out = Raised(g + 1)
  BY <1>1 DEF Served, Current, Quiet
<1> QED
  BY <1>3, <1>5, <1>6, <1>7

LEMMA LevelsSeen ==
  ASSUME Inv, Heard, Quiet, scenario.posted_updates, changed = {}
  PROVE  seen = level
<1>1. \A w \in Wires : Hears(toQemu, seen, w, level[w])
  BY DEF Heard
<1>2. DOMAIN toQemu = {}
  BY DEF Quiet
<1>3. \A w \in Wires : seen[w] = level[w]
  BY <1>1, <1>2 DEF Hears, Tells
<1>4. seen \in [Wires -> Int] /\ level \in [Wires -> {0, 1}]
  BY DEF Inv, Typed, TypeOK
<1> QED
  BY <1>3, <1>4

LEMMA RestIsDone ==
  ASSUME PortConstants, Inv, Alone, Heard
  PROVE  NobodyWaits
<1> SUFFICES ASSUME Quiet
             PROVE  /\ frames = <<>>
                    /\ \A i \in 1 .. sent : Awaited(i) => GotAnswer(i)
                    /\ LET irqs == {i \in 1 .. sent :
                                      program[i].cmd = "interrupt"}
                       IN irqs # {} => out = program[CHOOSE i \in irqs :
                                               \A j \in irqs : j <= i].val
                    /\ phase # "read" =>
                         /\ \A m \in Masters : master[m].at = "waits"
                              => Ready("mem", master[m].id)
                         /\ scenario.posted_updates /\ changed = {}
                              => seen = level
  BY DEF NobodyWaits
<1>1. frames = <<>>
  BY NoFrameLeft
<1>2. /\ \A i \in 1 .. sent : Awaited(i) => GotAnswer(i)
      /\ out = Raised(sent + 1)
  BY <1>1, AllTaken
<1> DEFINE irqs == {i \in 1 .. sent : program[i].cmd = "interrupt"}
           last(S) == CHOOSE i \in S : \A j \in S : j <= i
<1>3. irqs # {} => out = program[last(irqs)].val
  <2>1. sent \in Nat
    BY ScenarioType DEF Inv, Typed, TypeOK
  <2>2. irqs = Interrupts(sent + 1)
    BY <2>1 DEF Interrupts
  <2>3. Interrupts(sent + 1) # {}
          => Raised(sent + 1) = program[last(Interrupts(sent + 1))].val
    BY DEF Raised
  <2> HIDE DEF irqs, last
  <2> QED
    BY <1>2, <2>2, <2>3
<1>4. ASSUME NEW m \in Masters, master[m].at = "waits"
      PROVE  Ready("mem", master[m].id)
  <2>1. PICK i \in Slot : resp["mem"][i].used
                            /\ resp["mem"][i].id = master[m].id
    BY <1>4, SlottingTypes DEF Inv, Owned, OwnersServed
  <2> QED
    BY <2>1, NothingComes DEF Ready, response_lookup
<1>5. scenario.posted_updates /\ changed = {} => seen = level
  BY LevelsSeen
<1> QED
  BY <1>1, <1>2, <1>3, <1>4, <1>5

-----------------------------------------------------------------------------
(* The results.                                                            *)

(* Type correctness of both directions of the socket, of the adaptor with  *)
(* its stack of nested accesses, of the slots and of the threads, for      *)
(* every program of QEMU and any number of threads, wires and slots.       *)
THEOREM PortTypeCorrect ==
  ASSUME PortConstants
  PROVE  Spec => []TypeOK
<1>1. Inv => TypeOK
  BY DEF Inv, Typed
<1> QED
  BY <1>1, InvAlways, PTL

(* The remote port keeps the protocol, whatever is nested: every packet is *)
(* as long on the socket as its header says (rp_encode_busaccess), every   *)
(* response finds exactly one slot, so that the assertion of rp_process    *)
(* holds, a thread gets the answer to its own request, and QEMU gets one   *)
(* answer to each request that asks for one, reads seeing the writes       *)
(* before them.                                                            *)
THEOREM PortAnswersRight ==
  ASSUME PortConstants
  PROVE  Spec => [](FramesWhole /\ ResponsesExpected /\ ThreadsGetTheirs
                      /\ QemuAnswered)
<1>1. Inv => FramesWhole /\ ResponsesExpected /\ ThreadsGetTheirs
               /\ QemuAnswered
  BY AnswersFindTheirSlot, SlotsAreWaitedFor, AnswersRight DEF Inv, Typed
<1> QED
  BY <1>1, InvAlways, PTL

(* No request finds the slots of response_wait full: there is one for each *)
(* thread and for each answer QEMU may be waiting for, and a thread has    *)
(* only one request under way.                                             *)
THEOREM PortHasRoom ==
  ASSUME PortConstants
  PROVE  Spec => [](/\ \A m \in Masters : master[m].at = "idle" => Room("mem")
                    /\ phase = "access" /\ Top.pkt.cmd \in {"read", "write"}
                         /\ ~Top.pkt.posted => Room("mem"))
<1> DEFINE R == /\ \A m \in Masters : master[m].at = "idle" => Room("mem")
                /\ phase = "access" /\ Top.pkt.cmd \in {"read", "write"}
                     /\ ~Top.pkt.posted => Room("mem")
<1>1. PortConstants /\ Inv => R
  BY RoomFound DEF Inv
<1> HIDE DEF R
<1>2. Spec => []R
  BY <1>1, InvAlways, PTL
<1> QED
  BY <1>2 DEF R

(* As long as no second access of QEMU comes back to it while one does,    *)
(* nobody waits when the socket is empty and the adaptor reads or listens: *)
(* every request has its answer, no frame is left on the stack, and both   *)
(* sides see the levels of the wires that the other one drives.  With two  *)
(* nested accesses the loop of rp_process would not look for the answer of *)
(* the outer one (resumes).                                                *)
THEOREM RemotePortAnswersAlways ==
  ASSUME PortConstants, NoneNested
  PROVE  Spec => []RemotePortAnswers
<1> DEFINE J == Inv /\ Alone /\ Heard
<1>1. Init => J
  BY InitTyped, InitSlotting, InitServing, InitBounded, InitAlone, InitHeard
  DEF Inv
<1>2. J /\ [Next]_vars => J'
  <2> SUFFICES ASSUME J, [Next]_vars PROVE J'
    OBVIOUS
  <2>1. Inv' /\ Heard'
    BY InvStep, HeardStep DEF Inv
  <2>2. Alone'
    BY <2>1, AloneStep DEF Inv
  <2> QED
    BY <2>1, <2>2
<1>3. J => RemotePortAnswers
  BY AnswersFindTheirSlot, SlotsAreWaitedFor, AnswersRight, RestIsDone
  DEF Inv, Typed, RemotePortAnswers
<1> QED
  BY <1>1, <1>2, <1>3, PTL DEF Spec

===============================================================================
