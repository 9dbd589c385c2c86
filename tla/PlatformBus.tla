------------------------------ MODULE PlatformBus ------------------------------
(***************************************************************************)
(* The bus of the platform (class iconnect) with the devices that have no  *)
(* module of their own: the memory mapped registers (class regs), the RAM  *)
(* (class memory) and the debug device.  memmap builds the map while the   *)
(* platform is constructed; afterwards the software and the AXI DMAs send  *)
(* transactions, and the bus decodes them, first match first.              *)
(*                                                                         *)
(* A window ends with its last offset, which is what Top passes as size.   *)
(* A byte of data is 0 or 1 and all bytes of a transaction are equal.      *)
(***************************************************************************)
EXTENDS Integers, Sequences, FiniteSets

CONSTANTS
  Windows,       (* The calls of memmap, in order: [addr, size, device].   *)
  N_TARGETS,     (* The targets the bus has been made for.                 *)
  Garbage,       (* What an entry of the map may hold before it is used.   *)
  Initiators,    (* The target sockets of the bus.                         *)
  target_offset, (* Their offsets.                                         *)
  Accesses,      (* The transactions: [id, write, addr, len, value].       *)
  Ranges,        (* What a target may grant direct access to: [start, end] *)
  MemSize        (* The bytes of the RAM.                                  *)

Device == {"debug", "regs", "memory", "zynq"}
Entry == [addr: Nat, size: Nat, device: Device]
Access == [id: Initiators, write: BOOLEAN, addr: Nat, len: 1 .. 4,
           value: {0, 1}]

(* What the constants must be.                                             *)
BusConstants ==
  /\ N_TARGETS \in Nat \ {0}
  /\ Windows \in Seq(Entry) /\ Len(Windows) <= N_TARGETS
  /\ \A i \in 1 .. Len(Windows) : Windows[i].size > 0
  /\ Garbage \subseteq Entry
  /\ target_offset \in [Initiators -> Int]
  /\ Accesses \subseteq Access
  /\ Ranges \subseteq [start: Int, end: Int]
  /\ MemSize \in Nat \ {0}
  /\ \E i \in 1 .. Len(Windows) :
       \A j \in 1 .. Len(Windows) : Windows[j].device = "memory" <=> j = i

VARIABLES
  map,              (* The entries of the map.                             *)
  mapped,           (* How many calls of memmap have been made.            *)
  mmr,              (* The words of the union, and those behind it.        *)
  enable, reset,    (* The signals of regs.                                *)
  mem,              (* The RAM, and the bytes behind it.                   *)
  irq,              (* The interrupt line of the debug device.             *)
  trans,            (* History: the last transaction, where it went and
                       what its address is afterwards.                     *)
  grant,            (* The last range of direct access, or "none".         *)
  flat              (* History: the last value written to each address.    *)

devices == <<mmr, enable, reset, mem, irq, flat>>
vars == <<map, mapped, devices, trans, grant>>

Index == 0 .. N_TARGETS * 4 - 1
RamWindow == CHOOSE i \in 1 .. Len(Windows) : Windows[i].device = "memory"
RamBase == Windows[RamWindow].addr
None == [device |-> "none"]

TypeOK ==
  /\ map \in [Index -> Entry]
  /\ mapped \in 0 .. Len(Windows)
  /\ mmr \in [0 .. 7 -> {0, 1}]
  /\ enable \in {0, 1} /\ reset \in {0, 1} /\ irq \in {0, 1}
  /\ mem \in [0 .. MemSize + 3 -> {0, 1}]
  /\ grant # None => grant.first \in Int /\ grant.last \in Int

Init ==
  /\ \E g \in Garbage :
       map = [i \in Index |-> IF i < N_TARGETS
                                THEN [addr |-> 0, size |-> 0, device |-> "zynq"]
                                ELSE g]
  /\ mapped = 0
  /\ mmr = [i \in 0 .. 7 |-> 0]
  /\ enable = 0 /\ reset = 0 /\ irq = 0
  /\ mem = [i \in 0 .. MemSize + 3 |-> 0]
  /\ trans = None /\ grant = None
  /\ flat = [a \in RamBase .. RamBase + MemSize - 1 |-> 0]

-----------------------------------------------------------------------------
(* The interconnect.                                                       *)

First(S) == CHOOSE i \in S : \A j \in S : i <= j

(* memmap takes the first free entry; its index is its socket.             *)
memmap ==
  /\ mapped < Len(Windows)
  /\ LET free == {i \in Index : map[i].size = 0}
     IN  /\ free # {}
         /\ map' = [map EXCEPT ![First(free)] = Windows[mapped + 1]]
  /\ mapped' = mapped + 1
  /\ UNCHANGED <<devices, trans, grant>>

(* The mutant leaves the end of a window out.                              *)
MutantMatchesExclusive(addr) ==
  {i \in Index : /\ map[i].size # 0
                 /\ addr >= map[i].addr /\ addr < map[i].addr + map[i].size}

Matches(addr) ==
  {i \in Index : /\ map[i].size # 0
                 /\ addr >= map[i].addr /\ addr <= map[i].addr + map[i].size}

(* map_address: without a match the first target gets the transaction, at  *)
(* the offset an uninitialised variable happens to hold.                   *)
map_address(addr) ==
  IF Matches(addr) # {}
    THEN LET target == First(Matches(addr))
         IN  {[target |-> target, offset |-> addr - map[target].addr]}
    ELSE {[target |-> 0, offset |-> o] : o \in {0, addr}}

(* unmap_offset, when it is not fatal.                                     *)
InRange(target, offset) == offset < map[target].size
unmap_offset(target, offset) == map[target].addr + offset

-----------------------------------------------------------------------------
(* The devices.                                                            *)

(* The mutant forgets that a register has four bytes.                      *)
MutantRegisterOfByte(offset) == offset % 8

(* The index is taken modulo eight, and the union has four words.          *)
Register(offset) == (offset \div 4) % 8

(* The mutant has the two signals the other way round.                     *)
MutantRegsTransportSwapped(a, offset) ==
  LET r == Register(offset)
  IN  /\ mmr' = IF a.write THEN [mmr EXCEPT ![r] = a.value] ELSE mmr
      /\ enable' = IF a.write /\ r = 1 THEN mmr'[1] ELSE enable
      /\ reset' = IF a.write /\ r = 0 THEN mmr'[0] ELSE reset
      /\ UNCHANGED <<mem, irq, flat>>

RegsTransport(a, offset) ==
  LET r == Register(offset)
  IN  /\ mmr' = IF a.write THEN [mmr EXCEPT ![r] = a.value] ELSE mmr
      /\ enable' = IF a.write /\ r = 0 THEN mmr'[0] ELSE enable
      /\ reset' = IF a.write /\ r = 1 THEN mmr'[1] ELSE reset
      /\ UNCHANGED <<mem, irq, flat>>

(* The mutant fills the bytes with the length instead of the value.        *)
MutantMemoryTransportSwapped(a, offset) ==
  /\ mem' = [i \in DOMAIN mem |->
               IF a.write /\ offset <= i /\ i < offset + a.len THEN a.len
                                                               ELSE mem[i]]
  /\ flat' = [b \in DOMAIN flat |-> mem'[b - RamBase]]
  /\ UNCHANGED <<mmr, enable, reset, irq>>

(* The bus address of the byte is what the flat memory knows it by.        *)
MemoryTransport(a, offset) ==
  /\ mem' = IF a.write
              THEN [i \in DOMAIN mem |->
                      IF offset <= i /\ i < offset + a.len THEN a.value
                                                           ELSE mem[i]]
              ELSE mem
  /\ flat' = IF a.write
               THEN LET at == a.addr + target_offset[a.id]
                    IN  [b \in DOMAIN flat |->
                           IF at <= b /\ b < at + a.len THEN a.value
                                                        ELSE flat[b]]
               ELSE flat
  /\ UNCHANGED <<mmr, enable, reset, irq>>

DebugTransport(a, offset) ==
  /\ irq' = IF a.write /\ offset = 12 THEN a.value ELSE irq
  /\ UNCHANGED <<mmr, enable, reset, mem, flat>>

DeviceTransport(a, target, offset) ==
  CASE map[target].device = "regs" -> RegsTransport(a, offset)
    [] map[target].device = "memory" -> MemoryTransport(a, offset)
    [] map[target].device = "debug" -> DebugTransport(a, offset)
    [] OTHER -> UNCHANGED devices

-----------------------------------------------------------------------------
(* b_transport: to the device and back, with the address restored.         *)
b_transport(a) ==
  LET addr == a.addr + target_offset[a.id]
  IN  \E d \in map_address(addr) :
        /\ DeviceTransport(a, d.target, d.offset)
        /\ trans' = [device |-> map[d.target].device, offset |-> d.offset,
                     requested |-> a, address |-> addr]
        /\ grant' = None
        /\ UNCHANGED <<map, mapped>>

(* get_direct_mem_ptr: the target grants a range of its own, which the bus *)
(* moves to its addresses; a range it finds invalid ends the simulation.   *)
get_direct_mem_ptr(a, range) ==
  LET addr == a.addr + target_offset[a.id]
  IN  \E d \in map_address(addr) :
        /\ map[d.target].device = "memory"
        /\ grant' = IF InRange(d.target, range.start) /\ InRange(d.target, range.end)
                      THEN [device |-> "memory", invalid |-> FALSE,
                            first |-> unmap_offset(d.target, range.start),
                            last |-> unmap_offset(d.target, range.end)]
                      ELSE [device |-> "memory", invalid |-> TRUE,
                            first |-> 0, last |-> 0]
        /\ trans' = None
        /\ UNCHANGED <<map, mapped, devices>>

Next ==
  \/ memmap
  \/ /\ mapped = Len(Windows)
     /\ \/ \E a \in Accesses : b_transport(a)
        \/ \E a \in Accesses, r \in Ranges : get_direct_mem_ptr(a, r)

Spec == Init /\ [][Next]_vars

-----------------------------------------------------------------------------
(* Correctness.                                                            *)

Containing(addr) ==
  {i \in 1 .. Len(Windows) :
     addr \in Windows[i].addr .. Windows[i].addr + Windows[i].size}

(***************************************************************************)
(* A transaction reaches the device of the narrowest window its address    *)
(* lies in, both ends of the window included, although the windows overlap *)
(* the one that leads back to the host and only the order of the calls of  *)
(* memmap tells them apart (iconnect.h 158-169, zynqmp_demo.cc 340-381).   *)
(***************************************************************************)
ReachesOwner ==
  trans # None /\ Containing(trans.address) # {} =>
    \E i \in Containing(trans.address) :
      /\ \A j \in Containing(trans.address) : Windows[i].size <= Windows[j].size
      /\ trans.device = Windows[i].device
      /\ trans.offset = trans.address - Windows[i].addr

(***************************************************************************)
(* Through the bus the RAM is a flat memory: every byte holds what was     *)
(* last written to its bus address by any initiator, and nothing behind    *)
(* the RAM or behind the union of the registers is written by the          *)
(* transactions of this platform's programs (memory.cc 49-84, regs.cc      *)
(* 39-44).                                                                 *)
(***************************************************************************)
FlatMemory ==
  /\ \A i \in 0 .. MemSize - 1 : mem[i] = flat[RamBase + i]
  /\ \A i \in MemSize .. MemSize + 3 : mem[i] = 0
  /\ \A i \in 4 .. 7 : mmr[i] = 0

(***************************************************************************)
(* The signals of the processor follow the registers whatever the width of *)
(* the accesses, and the two do not disturb each other (regs.cc 44-51).    *)
(***************************************************************************)
SignalsFollowRegisters == enable = mmr[0] /\ reset = mmr[1]

(* What the bus promises.                                                  *)
BusDelivers == ReachesOwner /\ FlatMemory /\ SignalsFollowRegisters

(***************************************************************************)
(* What zynqmp_demo.cc and the programs of this platform are trusted with: *)
(* of two windows that overlap the narrower one is mapped first, and no    *)
(* write leaves the windows, the RAM or the union of the registers.        *)
(***************************************************************************)
NarrowFirst ==
  \A i, j \in 1 .. Len(Windows) :
    i < j =>
      \/ Windows[i].size <= Windows[j].size
      \/ Windows[j].addr + Windows[j].size < Windows[i].addr
      \/ Windows[i].addr + Windows[i].size < Windows[j].addr

WritesFit ==
  \A a \in Accesses : a.write =>
    LET at == a.addr + target_offset[a.id]
        window == Windows[First(Containing(at))]
    IN  /\ Containing(at) # {}
        /\ window.device = "memory" => at + a.len <= RamBase + MemSize
        /\ window.device = "regs" => Register(at - window.addr) < 4
=============================================================================
