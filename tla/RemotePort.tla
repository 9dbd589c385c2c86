------------------------------ MODULE RemotePort ------------------------------
(***************************************************************************)
(* The remote port that connects the SystemC simulation to QEMU: the       *)
(* packets on the two directions of a socket, the adaptor process that     *)
(* reads them (class remoteport_tlm), the pthread that tells it of packets *)
(* when the socket does not block, the memory masters it drives, the       *)
(* memory slave through which threads of the simulation reach QEMU, and    *)
(* the wires.                                                              *)
(*                                                                         *)
(* SystemC does not preempt: nothing of the simulation moves while the     *)
(* adaptor is in the system call that reads the socket (phase "read").  An *)
(* access of QEMU that falls through the memory map of the platform goes   *)
(* back to QEMU; the adaptor process itself then waits for the answer and  *)
(* serves other packets meanwhile, so that it has a stack of frames.       *)
(***************************************************************************)
EXTENDS Integers, Sequences, FiniteSets

CONSTANTS
  Scenarios,    (* [program, outstanding, blocking, posted_updates, caps,
                   accesses, changes]: what QEMU sends and how many answers
                   it may be waiting for, the mode of the socket and of the
                   wires, the capabilities of QEMU's hello, and bounds on
                   the accesses of the threads and the changes of wires.   *)
  Masters,      (* Threads that access QEMU's memory.                      *)
  Wires,        (* The input wires, numbers.                               *)
  Slots         (* RP_MAX_OUTSTANDING_TRANSACTIONS.                        *)

VARIABLES
  scenario,
  sent,       (* How many packets of the program QEMU has sent.            *)
  answers,    (* History: the answers QEMU has got, [id, val].             *)
  seen,       (* The levels QEMU has been told.                            *)
  toSc, toQemu,         (* The packets in the socket.                      *)
  mutex, rp_pkt_event,  (* Between the pthread and the adaptor.            *)
  phase, frames,        (* What the adaptor does, and the requests it is
                           serving, the last one on top.                   *)
  caps,       (* peer.caps.                                                *)
  rp_pkt_id,  (* The next identifier.                                      *)
  resp,       (* The slots of the two devices that wait for answers.       *)
  master, accesses,     (* The threads, and how many accesses were made.   *)
  level, changed, wire_update, changes,
              (* The wires, the ones with an event, the thread that tells
                 QEMU of them, and how many changes there were.            *)
  mem, out    (* The memory behind the masters and the wires QEMU drives.  *)

qemu == <<sent, answers, seen>>
wires == <<level, changed, wire_update, changes>>
vars == <<scenario, qemu, toSc, toQemu, mutex, rp_pkt_event, phase, frames,
          caps, rp_pkt_id, resp, master, accesses, wires, mem, out>>

Devs == {"mem", "wires"}
Hole == 99             (* An address that leads back to QEMU.              *)
Told(id) == 100 + id   (* What QEMU answers to a packet.                   *)
Slot == 1 .. Slots
Free == [used |-> FALSE, valid |-> FALSE, id |-> 0, val |-> 0]
Idle == [at |-> "idle", id |-> 0, val |-> 0]

Cmds == {"hello", "sync", "read", "write", "interrupt"}

(* What the code takes for granted: QEMU says hello once, and first        *)
(* (remote-port-proto.c 405); reads and syncs are not posted, and byte     *)
(* enables need the longer header; there is a slot for everybody that may  *)
(* wait (response_wait asserts it).                                        *)
WellFormed(s) ==
  /\ s.program \in Seq([cmd: Cmds, addr: Int, posted: BOOLEAN, val: Int])
  /\ s.blocking \in BOOLEAN /\ s.posted_updates \in BOOLEAN
  /\ s.outstanding \in Nat /\ s.accesses \in Nat /\ s.changes \in Nat
  /\ \A i \in DOMAIN s.program :
       /\ s.program[i].cmd = "hello" <=> i = 1
       /\ s.program[i].cmd \in {"read", "sync"} => ~s.program[i].posted
  /\ "ext_byte_en" \in s.caps => "ext_base" \in s.caps
  /\ Cardinality(Masters) + s.outstanding <= Slots

PortConstants ==
  /\ Slots \in Nat \ {0}
  /\ IsFiniteSet(Masters) /\ IsFiniteSet(Wires) /\ Wires \subseteq Nat
  /\ \A s \in Scenarios : WellFormed(s)

(* No second access of QEMU comes back to it while one does.               *)
OneAtATime(s) ==
  \/ s.outstanding <= 1
  \/ \A i \in DOMAIN s.program :
       s.program[i].cmd \in {"read", "write"} /\ s.program[i].addr = Hole
         => s.program[i].posted

NoneNested == \A s \in Scenarios : OneAtATime(s)

Init ==
  /\ scenario \in Scenarios
  /\ sent = 0 /\ answers = <<>> /\ seen = [w \in Wires |-> 0]
  /\ toSc = <<>> /\ toQemu = <<>>
  /\ mutex = "free" /\ rp_pkt_event = FALSE
  /\ phase = "reset" /\ frames = <<>>
  /\ caps = {} /\ rp_pkt_id = 0
  /\ resp = [d \in Devs |-> [i \in Slot |-> Free]]
  /\ master = [m \in Masters |-> Idle] /\ accesses = 0
  /\ level = [w \in Wires |-> 0] /\ changed = {} /\ changes = 0
  /\ wire_update = Idle
  /\ mem = 0 /\ out = 0
-----------------------------------------------------------------------------
(* Packets. `len' is what the header says of the bytes behind it, `wrote'  *)
(* what the sender puts on the socket.                                     *)

hdrSize == 20
busSize(c) == IF "ext_base" \in c THEN 80 ELSE 58

(* A header whose length forgets the data of a response.                   *)
MutantPayload(cmd, response, size) ==
  IF cmd = "write" /\ ~response THEN size ELSE 0

(* A packet with what its header says, and what is written.                *)
Framed(pkt, len, wrote) ==
  [cmd |-> pkt.cmd, id |-> pkt.id, dev |-> pkt.dev, response |-> pkt.response,
   posted |-> pkt.posted, addr |-> pkt.addr, val |-> pkt.val,
   len |-> len, wrote |-> wrote]

(* The bytes of data of a packet: those of write requests and of the       *)
(* responses to reads.                                                     *)
Payload(cmd, response, size) ==
  IF (cmd = "write" /\ ~response) \/ (cmd = "read" /\ response)
  THEN size ELSE 0

(* rp_encode_busaccess, and what its callers write: it returns the size of *)
(* the header, with the data of a response; the data of a request and the  *)
(* byte enables follow.                                                    *)
rp_encode_busaccess(c, pkt, size, be) ==
  LET data == Payload(pkt.cmd, pkt.response, size)
      enables == IF "ext_base" \in c THEN be ELSE 0
      written == IF pkt.cmd = "read" /\ ~pkt.response THEN 0
                 ELSE IF pkt.cmd = "write" /\ pkt.response THEN 0 ELSE size
  IN Framed(pkt, busSize(c) - hdrSize + data + enables,
            busSize(c) + be + written)

rp_encode_other(pkt, size) == Framed(pkt, size, hdrSize + size)

Packet(cmd, id, dev, response, posted, addr, val) ==
  [cmd |-> cmd, id |-> id, dev |-> dev, response |-> response,
   posted |-> posted, addr |-> addr, val |-> val]

(* The answer to a packet keeps its identifier, device and flags.          *)
Answer(pkt, val) ==
  Packet(pkt.cmd, pkt.id, pkt.dev, TRUE, pkt.posted, pkt.addr, val)
-----------------------------------------------------------------------------
(* The slots of responses (class remoteport_tlm_dev).                      *)

(* Takes a slot that may still be in use.                                  *)
MutantFreeSlot(r) == 1

FreeSlot(r) == CHOOSE i \in Slot : ~r[i].used /\ \A j \in 1 .. i - 1 : r[j].used

(* The first half of response_wait.                                        *)
Reserve(dev, id) ==
  [resp EXCEPT ![dev][FreeSlot(resp[dev])] =
     [@ EXCEPT !.used = TRUE, !.id = id]]

(* Finds a slot that was used once.                                        *)
MutantLookup(dev, id) == {i \in Slot : resp[dev][i].used}

response_lookup(dev, id) ==
  {i \in Slot : resp[dev][i].used /\ resp[dev][i].id = id}

(* The response for an identifier has come.                                *)
Ready(dev, id) == \E i \in response_lookup(dev, id) : resp[dev][i].valid
ValueOf(dev, id) ==
  resp[dev][CHOOSE i \in response_lookup(dev, id) : TRUE].val

(* Forgets to reset the slot.                                              *)
MutantDone(dev, id) == resp

response_done(dev, id) ==
  [resp EXCEPT ![dev] = [i \in Slot |->
     IF i \in response_lookup(dev, id)
     THEN [@[i] EXCEPT !.used = FALSE, !.valid = FALSE] ELSE @[i]]]
-----------------------------------------------------------------------------
(* QEMU, as far as the protocol describes it.                              *)

program == scenario.program

(* The packets that are answered: reads always, the others unless they are *)
(* posted, and interrupts only by a peer that knows QEMU understands.      *)
Awaited(i) ==
  LET p == program[i]
  IN \/ p.cmd \in {"read", "sync"}
     \/ p.cmd = "write" /\ ~p.posted
     \/ p.cmd = "interrupt" /\ ~p.posted /\ "wire_posted_updates" \in caps

GotAnswer(i) == \E k \in DOMAIN answers : answers[k].id = i

qemu_sends ==
  /\ sent < Len(program)
  /\ Cardinality({i \in 1 .. sent : Awaited(i) /\ ~GotAnswer(i)})
       < scenario.outstanding
  /\ LET p == program[sent + 1]
     IN toSc' = Append(toSc, Packet(p.cmd, sent + 1, "qemu", FALSE, p.posted,
                                    p.addr, p.val))
  /\ sent' = sent + 1
  /\ UNCHANGED <<scenario, answers, seen, toQemu, mutex, rp_pkt_event, phase,
                 frames, caps, rp_pkt_id, resp, master, accesses, wires, mem,
                 out>>

(* Requests are answered, those of wires when QEMU has the capability.     *)
Asks(p) ==
  /\ ~p.response /\ ~p.posted
  /\ \/ p.cmd \in {"read", "write"}
     \/ p.cmd = "interrupt" /\ "wire_posted_updates" \in scenario.caps

(* The answers come in order; a posted request may be answered all the     *)
(* same.                                                                   *)
qemu_receives ==
  /\ toQemu # <<>>
  /\ LET p == Head(toQemu)
     IN /\ IF p.response
           THEN answers' = Append(answers, [id |-> p.id, val |-> p.val])
           ELSE UNCHANGED answers
        /\ IF p.cmd = "interrupt" /\ ~p.response
           THEN seen' = [seen EXCEPT ![p.addr] = p.val] ELSE UNCHANGED seen
        /\ \/ /\ Asks(p) \/ (~p.response /\ p.posted)
              /\ toSc' = Append(toSc, Answer(p, Told(p.id)))
           \/ ~Asks(p) /\ UNCHANGED toSc
  /\ toQemu' = Tail(toQemu)
  /\ UNCHANGED <<scenario, sent, mutex, rp_pkt_event, phase, frames, caps,
                 rp_pkt_id, resp, master, accesses, wires, mem, out>>
-----------------------------------------------------------------------------
(* The pthread of rp_pkt_main. It holds the mutex while select blocks.     *)

thread_locks ==
  /\ ~scenario.blocking /\ mutex = "free"
  /\ mutex' = "thread"
  /\ UNCHANGED <<scenario, qemu, toSc, toQemu, rp_pkt_event, phase, frames,
                 caps, rp_pkt_id, resp, master, accesses, wires, mem, out>>

thread_notifies ==
  /\ mutex = "thread" /\ toSc # <<>>
  /\ rp_pkt_event' = TRUE /\ mutex' = "free"
  /\ UNCHANGED <<scenario, qemu, toSc, toQemu, phase, frames, caps,
                 rp_pkt_id, resp, master, accesses, wires, mem, out>>
-----------------------------------------------------------------------------
(* The adaptor process.                                                    *)

say_hello ==
  /\ phase = "reset"
  /\ toQemu' = Append(toQemu, rp_encode_other(
       Packet("hello", rp_pkt_id, "mem", FALSE, FALSE, 0, 0), 20))
  /\ rp_pkt_id' = rp_pkt_id + 1
  /\ phase' = "listen"
  /\ UNCHANGED <<scenario, qemu, toSc, mutex, rp_pkt_event, frames, caps,
                 resp, master, accesses, wires, mem, out>>

(* The adaptor enters the system call; with the pthread, once it has been  *)
(* notified.                                                               *)
reads ==
  /\ phase = "listen"
  /\ scenario.blocking \/ rp_pkt_event
  /\ phase' = "read" /\ rp_pkt_event' = FALSE
  /\ UNCHANGED <<scenario, qemu, toSc, toQemu, mutex, frames, caps, rp_pkt_id,
                 resp, master, accesses, wires, mem, out>>

Top == frames[Len(frames)]
Pop == SubSeq(frames, 1, Len(frames) - 1)

(* Goes on before the answer is there.                                     *)
MutantReturns(r) ==
  IF frames = <<>>
  THEN phase' = "listen" /\ UNCHANGED frames /\ resp' = r
  ELSE /\ phase' = "delta"
       /\ frames' = Append(Pop, [Top EXCEPT !.val = 0])
       /\ resp' = r

(* rp_process returns to process, or to the response_wait of the frame on  *)
(* top, which listens again until its answer is there.                     *)
Returns(r) ==
  LET mine == {i \in Slot : /\ r["mem"][i].used /\ r["mem"][i].valid
                            /\ frames # <<>> /\ r["mem"][i].id = Top.slot}
  IN IF mine = {}
     THEN phase' = "listen" /\ UNCHANGED frames /\ resp' = r
     ELSE LET i == CHOOSE i \in mine : TRUE
          IN /\ phase' = "delta"
             /\ frames' = Append(Pop, [Top EXCEPT !.slot = -1,
                                                  !.val = r["mem"][i].val])
             /\ resp' = [r EXCEPT !["mem"][i] = [@ EXCEPT !.used = FALSE,
                                                         !.valid = FALSE]]

(* A response to a posted packet is dropped.                               *)
Dropped(p) == p.posted

(* One packet is taken from the socket. A response is put in its slot and  *)
(* ends rp_process; a hello and a sync are served at once.                 *)
receives ==
  /\ phase = "read" /\ mutex = "free" /\ toSc # <<>>
  /\ LET p == Head(toSc)
     IN \/ /\ p.response /\ Dropped(p)
           /\ Returns(resp) /\ UNCHANGED <<toQemu, caps>>
        \/ /\ p.response /\ ~Dropped(p)
           /\ Returns([resp EXCEPT ![p.dev] = [i \in Slot |->
                IF i \in response_lookup(p.dev, p.id)
                THEN [@[i] EXCEPT !.valid = TRUE, !.val = p.val] ELSE @[i]]])
           /\ UNCHANGED <<toQemu, caps>>
        \/ /\ ~p.response /\ p.cmd = "hello"
           /\ caps' = scenario.caps
           /\ phase' = "sync" /\ UNCHANGED <<toQemu, frames, resp>>
        \/ /\ ~p.response /\ p.cmd = "sync"
           /\ toQemu' = Append(toQemu, rp_encode_other(Answer(p, 0), 8))
           /\ phase' = "sync" /\ UNCHANGED <<caps, frames, resp>>
        \/ /\ ~p.response /\ p.cmd \in {"read", "write", "interrupt"}
           /\ frames' = Append(frames, [pkt |-> p, slot |-> -1, val |-> 0])
           /\ phase' = "access" /\ UNCHANGED <<toQemu, caps, resp>>
  /\ toSc' = Tail(toSc)
  /\ UNCHANGED <<scenario, qemu, mutex, rp_pkt_event, rp_pkt_id, master,
                 accesses, wires, mem, out>>

(* rp_bus_access on a target of the platform.                              *)
access ==
  /\ phase = "access" /\ Top.pkt.cmd \in {"read", "write"}
  /\ Top.pkt.addr # Hole
  /\ mem' = IF Top.pkt.cmd = "write" THEN Top.pkt.val ELSE mem
  /\ frames' = Append(Pop, [Top EXCEPT !.val = mem])
  /\ phase' = "delta"
  /\ UNCHANGED <<scenario, qemu, toSc, toQemu, mutex, rp_pkt_event, caps,
                 rp_pkt_id, resp, master, accesses, wires, out>>

(* rp_bus_access on an address that leads back to QEMU: b_transport of the *)
(* memory slave, in the adaptor process. The access is posted when the     *)
(* packet is.                                                              *)
forwards ==
  /\ phase = "access" /\ Top.pkt.cmd \in {"read", "write"}
  /\ Top.pkt.addr = Hole
  /\ toQemu' = Append(toQemu, rp_encode_busaccess(caps,
       Packet(Top.pkt.cmd, rp_pkt_id, "mem", FALSE, Top.pkt.posted,
              0, Top.pkt.val), 4, 0))
  /\ rp_pkt_id' = rp_pkt_id + 1
  /\ IF Top.pkt.posted
     THEN phase' = "delta" /\ UNCHANGED <<frames, resp>>
     ELSE /\ resp' = Reserve("mem", rp_pkt_id)
          /\ frames' = Append(Pop, [Top EXCEPT !.slot = rp_pkt_id])
          /\ phase' = "listen"
  /\ UNCHANGED <<scenario, qemu, toSc, mutex, rp_pkt_event, caps, master,
                 accesses, wires, mem, out>>

(* One mutant answers posted writes too, the other not even reads.         *)
MutantAnswers(pkt) == TRUE
MutantSilent(pkt) == ~pkt.posted /\ (pkt.cmd = "read" => "ext_base" \in caps)

(* cmd_read_null answers every packet, cmd_write_null those not posted.    *)
Answers(pkt) == pkt.cmd = "read" \/ ~pkt.posted

replies ==
  /\ phase = "delta"
  /\ toQemu' = IF Answers(Top.pkt)
               THEN Append(toQemu, rp_encode_busaccess(caps,
                      Answer(Top.pkt, Top.val), 4, 0))
               ELSE toQemu
  /\ frames' = Pop /\ phase' = "sync"
  /\ UNCHANGED <<scenario, qemu, toSc, mutex, rp_pkt_event, caps, rp_pkt_id,
                 resp, master, accesses, wires, mem, out>>

(* Answers every update.                                                   *)
MutantAnswersWire(pkt) == TRUE

AnswersWire(pkt) == "wire_posted_updates" \in caps /\ ~pkt.posted

(* remoteport_tlm_wires::cmd_interrupt_null, after its sync.               *)
cmd_interrupt ==
  /\ phase = "access" /\ Top.pkt.cmd = "interrupt"
  /\ out' = Top.pkt.val
  /\ toQemu' = IF AnswersWire(Top.pkt)
               THEN Append(toQemu, rp_encode_other(Answer(Top.pkt, 0), 21))
               ELSE toQemu
  /\ frames' = Pop /\ phase' = "sync"
  /\ UNCHANGED <<scenario, qemu, toSc, mutex, rp_pkt_event, caps, rp_pkt_id,
                 resp, master, accesses, wires, mem>>

(* After a request post_any_cmd yields, and the loop of rp_process goes    *)
(* on: it does not look whether the frame on top has its answer.           *)
resumes ==
  /\ phase = "sync"
  /\ phase' = "listen"
  /\ UNCHANGED <<scenario, qemu, toSc, toQemu, mutex, rp_pkt_event, frames,
                 caps, rp_pkt_id, resp, master, accesses, wires, mem, out>>
-----------------------------------------------------------------------------
(* The threads of the simulation. They run when the adaptor has yielded.   *)

Running == phase \notin {"reset", "read"}

(* b_transport of the memory slave, up to response_wait. Byte enables are  *)
(* refused unless QEMU knows them.                                         *)
b_transport(m) ==
  /\ Running
  /\ master[m].at = "idle" /\ accesses < scenario.accesses
  /\ accesses' = accesses + 1
  /\ \E cmd \in {"read", "write"}, posted \in BOOLEAN, be \in {0, 4} :
       IF be # 0 /\ "ext_byte_en" \notin caps
       THEN UNCHANGED <<toQemu, rp_pkt_id, resp, master>>
       ELSE /\ toQemu' = Append(toQemu, rp_encode_busaccess(caps,
                 Packet(cmd, rp_pkt_id, "mem", FALSE, posted, 0, 0), 4, be))
            /\ rp_pkt_id' = rp_pkt_id + 1
            /\ IF posted THEN UNCHANGED <<resp, master>>
               ELSE /\ resp' = Reserve("mem", rp_pkt_id)
                    /\ master' = [master EXCEPT ![m] =
                         [at |-> "waits", id |-> rp_pkt_id, val |-> 0]]
  /\ UNCHANGED <<scenario, qemu, toSc, mutex, rp_pkt_event, phase, frames,
                 caps, wires, mem, out>>

(* The event of the slot has been notified.                                *)
response_wait(m) ==
  /\ Running
  /\ master[m].at = "waits" /\ Ready("mem", master[m].id)
  /\ master' = [master EXCEPT ![m] =
       [@ EXCEPT !.at = "idle", !.val = ValueOf("mem", master[m].id)]]
  /\ resp' = response_done("mem", master[m].id)
  /\ UNCHANGED <<scenario, qemu, toSc, toQemu, mutex, rp_pkt_event, phase,
                 frames, caps, rp_pkt_id, accesses, wires, mem, out>>

(* A device changes a wire. The thread has to be waiting for the wires to  *)
(* notice. Wires whose updates wait for an answer stay still until QEMU's  *)
(* hello: before it nobody would wait for the answer, which no slot would  *)
(* expect.                                                                 *)
wire_changes(w) ==
  /\ Running /\ (scenario.posted_updates \/ caps = scenario.caps)
  /\ changes < scenario.changes /\ w \notin changed
  /\ level' = [level EXCEPT ![w] = 1 - @]
  /\ changed' = IF wire_update.at = "idle" THEN changed \cup {w} ELSE changed
  /\ changes' = changes + 1
  /\ UNCHANGED <<scenario, qemu, toSc, toQemu, mutex, rp_pkt_event, phase,
                 frames, caps, rp_pkt_id, resp, master, accesses, wire_update,
                 mem, out>>

(* Tells QEMU of the first changed wire only.                              *)
MutantUpdates(ws) == <<CHOOSE w \in ws : \A v \in ws : w <= v>>

(* The changed wires in the order of their numbers.                        *)
Updates(ws) ==
  [k \in 1 .. Cardinality(ws) |->
     CHOOSE w \in ws : Cardinality({v \in ws : v <= w}) = k]

(* wire_update: a packet for every changed wire; the last one asks for an  *)
(* answer when updates are not posted.                                     *)
updates_wires ==
  /\ Running /\ wire_update.at = "idle" /\ changed # {}
  /\ LET ws == Updates(changed)
         n == Len(ws)
         posted(k) == k < n \/ scenario.posted_updates
     IN /\ toQemu' = toQemu \o [k \in 1 .. n |-> rp_encode_other(
             Packet("interrupt", rp_pkt_id + k - 1, "wires", FALSE, posted(k),
                    ws[k], level[ws[k]]), 21)]
        /\ rp_pkt_id' = rp_pkt_id + n
        /\ IF "wire_posted_updates" \in caps /\ ~scenario.posted_updates
           THEN /\ resp' = Reserve("wires", rp_pkt_id + n - 1)
                /\ wire_update' = [wire_update EXCEPT !.at = "waits",
                                                     !.id = rp_pkt_id + n - 1]
           ELSE UNCHANGED <<resp, wire_update>>
  /\ changed' = {}
  /\ UNCHANGED <<scenario, qemu, toSc, mutex, rp_pkt_event, phase, frames,
                 caps, master, accesses, level, changes, mem, out>>

updated_wires ==
  /\ Running
  /\ wire_update.at = "waits" /\ Ready("wires", wire_update.id)
  /\ wire_update' = [wire_update EXCEPT !.at = "idle"]
  /\ resp' = response_done("wires", wire_update.id)
  /\ UNCHANGED <<scenario, qemu, toSc, toQemu, mutex, rp_pkt_event, phase,
                 frames, caps, rp_pkt_id, master, accesses, level, changed,
                 changes, mem, out>>

Next ==
  \/ qemu_sends \/ qemu_receives
  \/ thread_locks \/ thread_notifies
  \/ say_hello \/ reads \/ receives \/ access \/ forwards \/ replies
  \/ cmd_interrupt \/ resumes
  \/ \E m \in Masters : b_transport(m) \/ response_wait(m)
  \/ \E w \in Wires : wire_changes(w)
  \/ updates_wires \/ updated_wires

Spec == Init /\ [][Next]_vars
-----------------------------------------------------------------------------
(* Types.                                                                  *)
SlotState == [used: BOOLEAN, valid: BOOLEAN, id: Nat, val: Int]
Thread == [at: {"idle", "waits"}, id: Nat, val: Int]
Command == [cmd: Cmds, id: Nat, dev: Devs \cup {"qemu"}, response: BOOLEAN,
            posted: BOOLEAN, addr: Int, val: Int]
FramedCommand ==
  [cmd: Cmds, id: Nat, dev: Devs \cup {"qemu"}, response: BOOLEAN,
   posted: BOOLEAN, addr: Int, val: Int, len: Int, wrote: Int]
Frame == [pkt: Command, slot: Int, val: Int]

TypeOK ==
  /\ scenario \in Scenarios
  /\ sent \in 0 .. Len(program)
  /\ answers \in Seq([id: Nat, val: Int])
  /\ seen \in [Wires -> Int] /\ level \in [Wires -> {0, 1}]
  /\ toSc \in Seq(Command) /\ toQemu \in Seq(FramedCommand)
  /\ mutex \in {"free", "thread"} /\ rp_pkt_event \in BOOLEAN
  /\ phase \in {"reset", "listen", "read", "sync", "access", "delta"}
  /\ frames \in Seq(Frame)
  /\ caps \in {{}, scenario.caps}
  /\ rp_pkt_id \in Nat
  /\ resp \in [Devs -> [Slot -> SlotState]]
  /\ master \in [Masters -> Thread] /\ wire_update \in Thread
  /\ accesses \in 0 .. scenario.accesses
  /\ changed \in SUBSET Wires /\ changes \in 0 .. scenario.changes
  /\ mem \in Int /\ out \in Int

(* Both ends agree where a packet ends: a sender writes what its header    *)
(* announces (rp_encode_busaccess and its callers; the reader takes        *)
(* hdr.len bytes).                                                         *)
FramesWhole ==
  \A i \in DOMAIN toQemu : toQemu[i].wrote = hdrSize + toQemu[i].len

(* Every response finds the slot of the thread that waits for it: the      *)
(* assertion of rp_process.                                                *)
ResponsesExpected ==
  \A i \in DOMAIN toSc :
    toSc[i].response /\ ~toSc[i].posted
      => Cardinality(response_lookup(toSc[i].dev, toSc[i].id)) = 1

(* A thread gets the answer to its own request, and a slot is used while   *)
(* somebody waits for it and no longer (response_wait, response_done).     *)
ThreadsGetTheirs ==
  /\ \A m \in Masters :
       master[m].val # 0 => master[m].val = Told(master[m].id)
  /\ \A d \in Devs, i \in Slot : resp[d][i].used =>
       \/ \E m \in Masters : /\ master[m].at = "waits"
                             /\ master[m].id = resp[d][i].id
       \/ \E k \in DOMAIN frames : frames[k].slot = resp[d][i].id
       \/ wire_update.at = "waits" /\ wire_update.id = resp[d][i].id

(* What QEMU reads: the last write before it in its program, or what it    *)
(* answered itself.                                                        *)
Written(i) ==
  LET ws == {j \in 1 .. i - 1 : program[j].cmd = "write"
                                  /\ program[j].addr # Hole}
  IN IF ws = {} THEN 0
     ELSE program[CHOOSE j \in ws : \A k \in ws : k <= j].val

(* QEMU gets one answer to each request that asks for one, and reads see   *)
(* the writes before them, the posted ones too (cmd_read_null,             *)
(* cmd_write_null, cmd_interrupt_null).                                    *)
QemuAnswered ==
  \A k \in DOMAIN answers :
    LET i == answers[k].id
    IN /\ Awaited(i)
       /\ \A j \in DOMAIN answers : answers[j].id = i => j = k
       /\ program[i].cmd = "read" =>
            IF program[i].addr = Hole THEN answers[k].val # 0
            ELSE answers[k].val = Written(i)

(* When the socket is empty and nothing can run, nobody waits: every       *)
(* answer has been given, and both sides see the levels of the wires the   *)
(* other one drives.  With updates that wait for an answer a change during *)
(* the wait is missed, and is not required here.                           *)
Quiet ==
  /\ toSc = <<>> /\ toQemu = <<>>
  /\ phase = "read" \/ (phase = "listen" /\ ~scenario.blocking)
  /\ ~rp_pkt_event
NobodyWaits ==
  Quiet =>
    /\ frames = <<>>
    /\ \A i \in 1 .. sent : Awaited(i) => GotAnswer(i)
    /\ LET irqs == {i \in 1 .. sent : program[i].cmd = "interrupt"}
       IN irqs # {} => out = program[CHOOSE i \in irqs :
                                       \A j \in irqs : j <= i].val
    /\ phase # "read" =>
         /\ \A m \in Masters :
              master[m].at = "waits" => Ready("mem", master[m].id)
         /\ scenario.posted_updates /\ changed = {} => seen = level

(* What the remote port promises.                                          *)
RemotePortAnswers ==
  /\ FramesWhole /\ ResponsesExpected /\ ThreadsGetTheirs
  /\ QemuAnswered /\ NobodyWaits
=============================================================================
