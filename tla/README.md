# Verification of the CNN virtual platform

TLA+ modules for the CNN accelerator in `src/systemc`, for the program in
`src/user-apps/user_level_tb` that drives it, and for the parts of
`src/systemc/libsystemctlm-soc` with the most to get wrong: the remote port, the
coherent interconnects and caches, the AXI bridges and the protocol checkers.
TLC checks the modules on small instances; TLAPS proves the theorems for every
value of the constants.

1. [The system](#1-the-system) – inventory
2. [The modules](#2-the-modules) – what models what
3. [The runs](#3-the-runs) – what is checked, bounds, fairness
4. [The proofs](#4-the-proofs)
5. [Findings](#5-findings) – and what else the code does that one would not expect
6. [What is not modelled, and why](#6-what-is-not-modelled)
7. [Plan](#7-plan)

## 1. The system

A user program under Linux in QEMU talks over a remote-port link to a SystemC
simulation: interconnect, a 64 KB memory, two AXI DMAs, a register block, and
the *processor*, a convolution engine fed and emptied by fourteen descriptor
DMAs.

```
 host buffer --dma[0]--> source RAM --MM2S--> bus --3 x S2MM--> slice RAM 0..2
                           ^   |                                   | 9 x MM2S
                           |   |                                   v
              loopback S2MM DMA <---- stream <---- 3 branches x 3 groups x 3 MACs
                  | trans_finished
                  v
 host buffer <--dma[1]-- source RAM[512..]        dma[1] --> irq --> UIO
```

The test bench (`test_bench.c`) fills the buffer, unmasks the interrupt,
programs both AXI DMAs and starts the first, pulses reset, sends fourteen
descriptor programs and nine sets of weights, sets enable, waits for the
interrupt, clears enable and reads the result.  It has an error exit after each
of these steps and none of them puts the hardware back.

| component | state | operations | talks to |
|---|---|---|---|
| descriptor DMA (`DMA.cc`) | descriptor vector, index, RAM pointer, down counter, count of loaded descriptors | `update` on a clock edge and both edges of reset; `load_descriptor` from a bus access | RAM, stream signal, `trans_finished` |
| memory hierarchy (`LEFT.cc`) | four DMAs, the stream bus, three slice RAMs | the four `update`s at one edge | source RAM, compute array |
| compute array (`Right.cc`, `maa.cc`) | nine DMAs, nine pixel buses, 27 weights and partial sums, the first signal of each group and branch | `mult_accumulate::update` on the clock; `PE_GROUP`, `PE_CLOUD`, `RIGHT::update` on changes of their data; `loadWeights` | slice RAMs, `streamOut` |
| processor (`Processor.h`) | the two above and the loopback DMA | their handlers at one edge | source RAM, AXI DMA |
| AXI DMA (`demo-dma.cc`) | addresses, length, RUN, DONE, error; burst buffer; event; irq | the thread `do_dma_copy`; register accesses; `enable_transfer` on `transfer_ready` | bus, interrupt, loopback |
| registers (`regs.cc`) | four words, the signals enable and reset | reads and writes | everything clocked |
| descriptor socket, weight socket | buffer of one descriptor; list of weights and count | a write; the last word pushes | one DMA; one group |
| interconnect (`iconnect.h`) | address map | decode, its inverse | all sockets |
| memory, debug device | bytes; one irq line | reads and writes | – |
| driver and test bench (`user_level_tb`) | program counter, mapped pointers, UIO file | the sequence above; error exits; being killed | everything |
| remote port (`libremote-port`) | packets in a socket, slots for answers, nested requests, wires, capabilities | accesses in both directions, interrupts, syncs, updates of wires | QEMU |
| ACE interconnect and caches | lines, monitors, the transactions of each port, fifos of the snoop engine and of the downstream port, DVM trackers | accesses of a cache, snoops, evictions, write-backs, maintenance, DVM messages | each other |
| CHI interconnect, caches and slave node | lines, monitors, transactions and identifiers at both ends, snoop filters, the one request at the point of coherence; retries, the lists of the slave node | requests, snoops, forwarded data, acknowledgements, credits, atomics | each other |
| AXI bridges | queues of transactions for each channel, beats, threads that call the target, counters that hold ready back | calls, transfers on the channels, reset | initiators and targets of TLM |
| protocol checkers | lists of outstanding transactions, counters, credits | one look at the signals at each edge | AXI, ACE, CHI channels |

What is hard:

* **Nothing synchronises the data path.**  There is no valid or ready signal:
  fourteen DMAs and 27 pipeline stages agree only because constants in
  `descriptors.h` (1, 101, 201; 300, 303, ... 324; 327) match latencies in
  `DMA.cc` and `maa.cc`.
* **State that outlives a reset.**  Reset leaves the slice RAMs, the pixel buses
  and the first partial-sum signals as they are, and the joints between groups
  are refreshed only by a *change* of their inputs.
* **Unchecked indices and unsigned counters** in the DMA.
* **Shared registers without locks** in the AXI DMA: three coroutines, bus
  transactions in the middle of each update, an event that is lost unless
  somebody is waiting for it.
* **A driver that may die anywhere**, leaving the hardware enabled or half
  loaded for the next run.
* **Snoops that cross.**  A cache gives up control in the middle of an access; a
  snoop may take the line it has just looked at, and write-backs, snoops and
  ordered transactions wait for each other.
* **Answers that cross.**  The remote port serves requests inside requests;
  identifiers, slots, retries and credits decide which answer is whose.
* **Resets with pointers to callers' stacks in every queue** of the bridges.

What makes each component correct:

* descriptor DMA: indices stay in the vector and the RAM; the counter does not
  wrap; the sequence of operations is the unrolled program; `trans_finished`
  means that a block is complete; the stream never repeats a pixel; programs end.
* memory hierarchy: it deals the pixels in order, each once, to its own cell.
* compute array: its stream is the convolution, whatever an earlier run left.
* processor: the filtered image ends up in the source RAM and is complete when
  it is reported; no cell is read while or before it is written.
* AXI DMA: copies are exact, wake-ups are not lost, a copy ends with DONE and
  the interrupt, DONE means that everything was copied.
* sockets: a DMA gets the descriptors that were sent, a group its weights.
* bus: the narrowest window that holds an address gets the access.
* driver: the interrupt that ends `wait_irq` is that of this run; the result
  read is that of the image written.
* remote port: every request gets one answer, the right one, and nobody waits
  when there is nothing on the socket.
* caches: a unique line is alone, every copy and in the end the memory hold the
  last store, exclusive stores are not overtaken, nothing waits in a ring.
* slave node: requests on a line take effect in their order, once each.
* bridges: the bytes that were asked for, at their addresses, in order where
  order counts; no caller waits for ever or is woken twice.
* checkers: on the traffic of the scenarios they report what the protocol calls
  wrong and nothing else.

`PROJECT.json` lists every component and every hazard at its line.

## 2. The modules

Names are those of the source where TLA+ allows it.  `PROJECT.json` maps each
definition to its lines.  Operators called `Mutant...` are deliberately wrong
variants of the definition that follows them: replacing the definition by one
of them must make a property fail, which shows that the property says something.

### Descriptor DMA: `DescriptorEngine`, `DmaChannel`, `DmaSchedule`

`DescriptorEngine` holds the data of `struct DMA` and its pure functions, used
by every module with a DMA in it: `Cleared` is `update` under reset, `Loaded`
is `load_descriptor`, `Advanced` is the decrement, pointer and successor part
of `update`.  Unsigned members count modulo `Word`.  `Fetch` is an unchecked
`descriptors[i]`: past the end it may return anything in `Garbage`.

`DmaChannel` is one DMA with everything that acts on it.  `Clock` is a rising
edge and runs `Update`, which has the three branches of the code; `AssertReset`
and `ReleaseReset` are the two register writes of `reset_processor` and run
`Update` as well, since the method is sensitive to both edges of reset;
`LoadDescriptor`, `StartProcessor`, `StopProcessor` are the driver's other
steps, and `Abort` is its death at any point, after which it starts over with
the hardware as it is.  RAM cells are symbolic: `touched` is the set of indices
read or written, the stream carries an index or zero.

`DmaSchedule` says what a program means without counters, by unrolling it into
one operation per active edge, and states the functional properties.

### Memory hierarchy: `Descriptors`, `OrderedCopy`, `MemoryHierarchy`

`Descriptors` is `descriptors.h` for an image of any size.  `MemoryHierarchy`
is `LEFT`: four DMAs that read the bus as it was before the edge and write it
together, with the driver above, which may also pause and resume.
`OrderedCopy` is the abstract specification: deal the next pixel or a blank to
the one cell it belongs to, or start over with another image.  The refinement
mapping computes `copied` from the counters of the third DMA.

### Compute array: `SystolicArray`

One chain of stages, numbered along it.  `Compute` is a clock edge of the
enabled array: all stages (`Accumulated`) read the signals from before it, then
the delta cycles in which branches and groups whose inputs or outputs changed
copy their `psumIn` to the first signal of their chain (`CloudUpdated`,
`GroupUpdated`).  Only the settled values matter between edges, which are 20 us
apart.  `psumFirst` and `cloudFirst` are `interPsumSignals[0]` and
`interGroupSignals[0]`, which no reset clears.  Pixels, weights and sums are
integers: the platform's floats are the bit patterns of the test bench's small
integers, i.e. subnormal numbers, whose sums and small multiples are exact.
The slice RAMs stand still here; `Processor` shows that they do.

### Processor: `Processor`

Instances of `MemoryHierarchy` and `SystolicArray` whose handlers are conjoined
at each edge, on the same RAMs, and the loopback DMA.  The driver takes the
steps of the test bench in its order.  The part of the source RAM that holds
the result is `output`, the rest `image`; the loopback cannot reach the image
(`RESULT >= BIG_RAM_SIZE`).

### AXI DMA: `DemoDma`

The three processes of `demodma` are SystemC coroutines, so one step runs from
one point where a process gives up control to the next: a bus transaction (it
may leave for QEMU, and simulated time passes while the link waits for the
answer), `wait(1 us)`, `wait(event)`.  `EventOccurs`, `ReadReturns`,
`WriteReturns`, `DelayEnds` are the thread; `WriteDst`, `WriteSrc`, `WriteLen`,
`WriteCtrl`, `SpeculativeReadReturns` the software's accesses, in the order of
`program_dmas`, at any time; `ReadyRises`, `ReadyFalls` the loopback's signal.
`HardwareStarted` chooses between `dma[1]` and `dma[0]`.

### Sockets, bus and driver: `SocketWrappers`, `PlatformBus`, `Driver`

`SocketWrappers`: the five-word buffer of a descriptor socket and the growing
list of a weight socket, written word by word or by any split memcpy may
choose, by a driver that is killed between any two accesses and started again.

`PlatformBus`: `memmap` with the windows of `Top` in its order, the first-match
decode, registers, RAM, debug device; two initiators, one behind an offset.
`flat` is the reference for the RAM.

`Driver`: the test bench from `main` to the comparison, with `unmask_irq` and
`wait_irq` opening the UIO file each for itself, against the two copies, the
filter, the interrupt and the UIO driver of the kernel, abstracted to which run
a datum belongs to.  `trigger` and `paced` are what the source leaves open: how
the kernel takes the line, and whether the first copy keeps ahead of the filter.

### Remote port: `RemotePort`

The adaptor process with a stack of the requests it is serving (an access of
QEMU that falls through the memory map goes back to QEMU, and the adaptor
serves packets while it waits), the pthread that tells it of packets when the
socket does not block, the slots for answers, threads of the simulation with
accesses of their own, and the wires in both directions.  QEMU is external: it
sends its program, keeps to a number of unanswered requests, and answers.
`WellFormed` is what the code takes for granted of a program and of the number of
slots (`RP_MAX_OUTSTANDING_TRANSACTIONS`, which `response_wait` asserts to be
enough); the slots of the run are as few as that allows.

### Coherent caches: `AceCoherence`, `AceDvm`, `ChiCoherence`, `ChiSlaveNode`

In `AceCoherence` and `ChiCoherence` one step runs from one `wait` of a SystemC
thread to the next; `running` is the node whose thread is inside its cache.  A
line is a record of its words; `last` is the last store to each and is what
copies are compared with.  Where the code loses track of a line (section 5) it
enters a history set (`broken`, `spoiled`, `crowded`, ...), and the properties
speak of the others; each set is entered only at the lines that section names.

`AceCoherence`: caches with either write policy, the transactions of each port,
`m_overlapping_tx`, the snoop engine, the exclusive monitors of the interconnect
and the downstream port with its locks.  `AceDvm`: the trackers of DVM Syncs;
`repeated` remembers that one was given to a second thread (section 5), and
`paced` says whether masters take turns.

`ChiCoherence`: the caches with the transactions of `txns-rn.h`, home node with
snoop filters and direct transfer between caches, retry at both ends.  The
slave node there is a memory with a retry; `ChiSlaveNode` has its threads, its
identifiers, data that come in several flits, byte enables and atomics.

### AXI bridges: `AxiBridges`

A call is cut by the aligner into `gps`, the payloads that the bridge sees.  A
transfer on a channel is one step of both bridges; the queues, holds and lists
carry the names of the code.  `resetn` may fall between any two steps, and what
waits in every queue is then woken with an error (tlm2axi) or aborted (axi2tlm).

### Protocol checkers: `CheckedChannels`, `AxiCheckers`, `AceCheckers`, `ChiCheckers`

`CheckedChannels` drives the channels with a scenario's traffic and all delays
of valid and ready, optionally breaking a handshake, and has the checks all
protocols share (stable payload, hanging, reset).  The other three have the
state and the checks of their checker, and collect what it reports in `errors`.
A scenario carries the errors that are to be reported (`wrong`), which are those of
the protocol.  Traffic that a checker is known to judge otherwise (section 5) is in
no scenario of `CheckersExact`; two examples, which comments of the checker itself
contradict, are the `Departures`, of which `CheckersExact` says nothing and
`checker_comments` everything.

### Suites: `MCPlatform`, `MCCoherence`

These modules join what is small on its own in one state machine: `part` says
whose steps are taken, the variables of the other parts stay 0.  A property of
a suite is the conjunction of those of its parts, each in its own module.

## 3. The runs

| run | instance | what it shows |
|---|---|---|
| `dma_channel` | 4 programs of every shape, RAM of 5, 3-bit words, 8 edges a run, 2 deaths | see the properties of `DmaChannel` and `DmaSchedule` |
| `memory_hierarchy` | 2 images of 3 slices of 2 pixels, pauses and resets at every edge | every index of a vector and every cell inside, refinement, faithful slices, completion |
| `processor` | 3 x 3 x 3 array, 2 images of 4 x 4, two runs, the first stopped anywhere | end to end result, no read/write races, every index and cell inside, liveness |
| `processor_first` | 2 x 2 kernel, 3 x 3 images | finding 3 |
| `demo_dma` | bursts of 2, copies of 0, 1, 3, 4 bytes at 2 places, started by the loopback or the software, reprogrammed at any time | exact copies, no lost wake-up, interrupt |
| `demo_dma_falls` | 1 program, 2 edges of `transfer_ready` | finding 2 |
| `driver` | two runs of the test bench, either killed anywhere, both kinds of interrupt | what is compared is this run's result; when the wait returns |
| `driver_unmask` | the same | finding 4 |
| `platform` | sockets, bus, array, remote port, AXI bridges, three checkers | `DescriptorsArriveWhole`, `FirstWeightsStay`, `BusDelivers`, `ArrayConvolves`, `RemotePortAnswers`, `BridgesDeliver`, `CheckersExact` |
| `coherence` | ACE with 2 caches and an ACE-Lite master, DVM with 3 masters, CHI with 2 and 3 caches, the CHI slave node | `CachesCoherent`, `NothingWaitsInRing`, `ExclusivesHold`, `DvmCompletes`, `SlaveNodeAnswers` |
| `ace_overlap` | the ACE part | finding 5 |
| `checker_comments` | a prefetch that is as it should be, two retried requests of which the first is sent again before the second credit comes | finding 1 |

**Properties worth knowing.**  `FollowsSchedule`: whatever pauses, resets and
deaths came before, index, pointer and counter stand where the unrolled program
says.  `CopiesInOrder`: the memory hierarchy implements `OrderedCopy`.
`SlicesFaithful`: a pause costs exactly the pixel that is on the bus.
`ArrayConvolves` (`StreamIsConvolution`, `StaleSumsFlushed`): the stream is the
convolution, against a two-dimensional definition, and what a reset leaves in
the joints is gone after `groupCount * peArraySize` edges, the exact number (one
fewer fails).  `ReadersFollowWriters`: a cell is read only at an edge after the
one that wrote it, so the order in which the simulator calls methods at an edge
does not matter.  `CopiesExactly`, `NoLostWakeup`, `StartedCopyInterrupts`: the
AXI DMA with its copies stopped and restarted by the signal and reprogrammed by
the software.  `WaitReturns`: `wait_irq` returns unless the interrupt came
before it opened its file.  `CachesCoherent`: against the last store to every
word, in ACE and in CHI.  `DataInOrder` (`SlaveNodeAnswers`): against a fold of
the requests in the order in which they were asked, with the arithmetic of
atomics written from numbers and not from bytes.  `CheckersExact`: soundness and
completeness of every check on the scenarios, against what the protocol calls
wrong, under all delays.  `AccessesInside`: while the processor is enabled no DMA
of it looks past its vector, counts below zero, or touches a cell it
should not.

**Why the bounds are enough.**  In `dma_channel` eight edges are more than any
of the programs needs to end or to wrap around, words of three bits make
wrapping happen within them, and two deaths allow a death during the recovery
from a death.  `memory_hierarchy` and the array part of `platform` bound nothing
but the sizes; slices of two pixels have a first and a last one, and the
constants have different values (no two pixels and no two weights are equal), so
a shifted or exchanged pixel shows.  `MaxEdges` merges the edges after the array
has drained.  `processor` is bounded to two runs because what one run leaves
behind is all that the next can see, and the first may be stopped at any edge.
In the AXI DMA copies shorter than, equal to and longer than a burst, with and
without a remainder, cover the paths of the loop; two programs allow the second
to arrive at every point of the first.  Two lines that share a place in the
cache force evictions; two words tell a partial from a whole write; three to six
requests allow a request, one that overtakes it, a snoop and a write-back of the
same line.  Two DVM Syncs are enough for a tracker to be given away twice; with
four the master that had one Complete too many goes on.  In the slave node bytes of four values and lines of four bytes let
every addition carry and every swap land in either half of the line; two
identifiers run out.  The bridges have bursts of one to three beats on a bus of
two bytes, at every alignment; the reset falls once, at every step.  A channel of
a checker may be late by more clocks than the limit after which it hangs.

**Fairness.**  `WF(Clock)`: the simulation never stops its clock.  In `DemoDma`
the bus answers, a delay ends and a notified event occurs; in `Driver` bursts and
delays end, the filter advances, the kernel takes interrupts and the test bench
goes on unless it is killed.  Nothing else is assumed of software or of
`transfer_ready`, so the liveness properties say "unless it
is stopped".  The suites state no fairness and check safety; that nobody waits
for ever is there the absence of a state at rest with somebody waiting
(`NobodyWaits`, `NotStuck`, `PointersAlive`, `AnsweredOnce`).  `DemoDma`,
`Driver` and the suites may legitimately rest; their runs do not check for
deadlock, the others do.

## 4. The proofs

| theorem | module | for every |
|---|---|---|
| `TypeCorrect`, `StaysInBounds`, `CountNeverWraps`, `ScheduleIsFollowed`, `FinishedWhenBlockDone`, `StreamIsNeverStale`, `OnlyADeadDriverRaces` | `DmaChannelProofs` | word size, RAM, set of well-formed programs, number of edges and deaths |
| `HierarchyStaysInside`, `SlicesAreFaithful`, `ImplementsOrderedCopy` | `MemoryHierarchyProofs` | image size and set of images |
| `DemoDmaTypeCorrect`, `WakeupIsNeverLost`, `CopiesAreExact` | `DemoDmaProofs` | word, burst, set of copies, number of programs and edges |
| `DriverTypeCorrect`, `ComparesThisResultAlways` | `DriverProofs` | number of runs and of calls |
| `SocketsTypeCorrect`, `FirstWeightsStayAlways`, `DescriptorsArriveWholeAlways` | `PlatformProofs` | set of programs and of weights, splitting of a descriptor |
| `BusDeliversAlways` | `PlatformProofs` | map with one RAM, set of transactions and of grants, offsets of the initiators, garbage in the map |
| `ProcessorStaysInside`, `ReadersFollowWritersAlways`, `FinishedMeansRecordedAlways`, `ProcessorContainsHierarchy` | `ProcessorProofs` | image, kernel and array size, set of images, number of edges and runs |
| `ResultIsFilteredAlways`, `JointsAreFlushed` | `ProcessorProofs` | the same, and every set of weights |
| `PortTypeCorrect`, `PortAnswersRight`, `PortHasRoom`, `RemotePortAnswersAlways` | `RemotePortProofs` | program of QEMU, number of threads, wires and slots, capabilities and modes of the socket |
| `DvmTypeCorrect`, `EveryCompleteCountsAlways`, `SyncsCompleteAlways`, `PacedNeverRepeatsAlways` | `AceDvmProofs` | set of masters but a single one, number of Syncs |

The assumptions are the named `ASSUME`s of the modules; those with
content are `WellFormed` (successors exist, nothing counts from zero, transfers
fit the RAM: what `descriptors.h` satisfies, and what the code takes for
granted), that an image fits a word, that image and result do not overlap in the
source RAM.  The theorems about
the sockets name theirs in the statement (`SocketConstants`: the programs
are not empty, and memcpy copies every word of a descriptor and its end last;
`PeeksEndBefore`: no read of other software ends where a descriptor does, which
would load it again).  `MCPlatform` assumes both, so that the run that checks the
two properties evaluates them.  The theorem about the bus names `BusConstants`
(one window is the RAM), `NarrowFirst` (of two windows that touch, the narrower
one is mapped first, which is the order of the calls in `zynqmp_demo.cc`) and
`WritesFit` (a write lands in a window, and one to the RAM or the registers stays
in them: neither device checks); `MCPlatform` assumes all three.  Those about `AceDvm` name `DvmConstants` (finitely
many masters, and not just one, whose Sync nobody could complete), which
`MCCoherence` assumes.  Those about `RemotePort` name `PortConstants`: QEMU says
hello once and first, its reads and syncs are not posted, byte enables come with
the longer header, and there is a slot for each thread and each answer QEMU may be
waiting for.  Only `RemotePortAnswersAlways` needs `NoneNested`, that no second
access of QEMU comes back to it while one does; without it `NobodyWaits` is
false (section 5).  `MCPlatform` assumes both.

The provers have no induction.  Where the proofs need it (over the edges spent in
a descriptor, over the stages of the array, over the size of a set) they take the
least counterexample: `Least` gives a non-empty set of numbers its least element,
and a step from the number below contradicts it.  A recursive function is a
`CHOOSE`, so that it is what its equation says has to be proved: the proof
builds, for every bound, the function up to that bound, and joins them.

**`StaysInBounds`.**  `InBounds` is not inductive: that the pointer stays in the
RAM needs the pointer to be `start` plus the edges already spent, times the
stride.  `IInv` adds `Protocol` (what the driver's program counter says about
signals and loaded descriptors), `Holds` (the vector is the loaded prefix of the
program) and `OnTrack` (index, pointer and counter are in step).  It is
conditional on `~raced`: a driver that died with the processor enabled may make
the next one execute a vector that is still being loaded, and then nothing can
be said.  `OnlyADeadDriverRaces` proves that there is no other way.

**`SlicesAreFaithful` and `ImplementsOrderedCopy`.**  The four DMAs never see
each other, so the invariant has to say that they are at the same place.
`Copying` puts each of the four in closed form as a function of one number, the
edges run for; `BusFaithful` says that the bus shows the pixel of the last edge
or, after a pause, zero; `Loading` and `Virgin` cover the time before.  The step
lemmas (`WaitStep`, `SliceStep`, `DoneStep`, `Mm2sStep`) show that the closed
forms advance by one.  The refinement maps a clock edge with a slice in transfer
to `Deal`, an image change or reset to `Restart` and the rest to stutters.

**`HierarchyStaysInside` and `ProcessorStaysInside`.**  Type correctness says nothing
of the places a DMA accesses, for its members are any words.  `AccessesInside` does
(`WithinBounds`: index and successor below the length of the vector, a counter that
is not zero before it is decremented, and a pointer inside its part of the RAM
during a transfer).  It follows from the closed forms: `BoundsOf` says so of a DMA at
the `n`th edge of a program of three descriptors, `ReadersFit` that the readers of
the array start early enough to end inside the slice and its padding.

**`WakeupIsNeverLost`.**  `NoLostWakeup` is inductive with `TypeOK`: a thread
begins to wait only after it has seen RUN cleared, with no point in between at
which it gives up control, and everything that sets RUN notifies afterwards.

**`CopiesAreExact`.**  `CopiesExactly` is not inductive: that the next burst
continues the copy needs the burst in flight to have been read from where the
registers still stand, and not to be longer than what is left.  `CopyInv` adds
this (`InFlight`) and drops the modulus of the length, which cannot wrap while
`len` is at most that of the job (`Exact`).  `BytesJoin` says that two bursts, the
second from where the first one ended, copy what one burst of both lengths does,
across the wrap of an address; its arithmetic is `WrapsOnce`.  A copy that is
started again in the middle of a burst is exact because the registers of the
new job are those the burst in flight was read from.

**`ScheduleIsFollowed`, `FinishedWhenBlockDone`, `StreamIsNeverStale`.**  The
three compare the DMA with `Position`, its program unrolled edge by edge, which is
a recursive function of the edges.  `PositionUnrolls` proves that it solves its
equation.  `AlwaysGoes` is the induction: where edge `n + 1` is looked up follows
from where edge `n` is, the next element of the same descriptor or the first of
its successor.  `OnSchedule` adds to the properties what holds before anything was
executed, in particular that the stream, which a reset does not clear, is zero
before the first descriptor is there.

**`OnlyADeadDriverRaces`.**  `LeftEnabled`: the processor is enabled while
nobody has started it only after a death.

**`ComparesThisResultAlways`.**  The test bench waits for neither copy, so that
nothing it has done itself says where they are.  `IInv` follows the image
through its stages: in the buffer until the first copy has taken it
(`ImageMoves`), in the RAM ahead of the filter (`FilterFollows`), and then the
result over the image in the buffer (`ResultMoves`); `StagesQuiet` says that
outside its stage each of them rests, so that nothing of an earlier run is on its
way.  All of it is conditional on an edge-triggered interrupt, a copy that stays
ahead and no death before; without one of them it is false.

**`DescriptorsArriveWholeAlways`.**  `BufferFilled`: what the accesses done so far
cover of the buffer is the descriptor being sent.  A descriptor is handed over by
the access that ends at the end of the buffer, which is the last of its copy, and
by then the earlier ones have covered the rest, whatever a killed driver left
there.

**`BusDeliversAlways`.**  `BusInv` adds to the properties what the map is:
`Mapped`, the windows of the calls made so far and, behind them, whatever the
constructor left, which is not all zero.  `LeadsToFirst` then shows that once all
windows are mapped an address in some window leads to the first of them, whatever
the garbage, and `OwnerReached` that the first is the narrowest.  The RAM stays
flat because `b - RamBase` is a bijection on the addresses of its window
(`RamKeeps`), and a register written in part changes the one its offset names
(`RegistersKeep`).

**`ReadersFollowWritersAlways`, `FinishedMeansRecordedAlways`.**  All nine
readers and the loopback are put in closed form: `After(w, b, e)` is a DMA that
waits `w` edges and transfers from `b` on, after `e` of them, and `Partly` one
that has got `n` of its three descriptors.  `Together` ties the four writers to
the same number: their `Elapsed` is the edges of the array until they are done.
The proofs of the memory hierarchy are used as they are (`LeftProofs`): every step
of the processor is one of the hierarchy or leaves it alone, which is
`ProcessorContainsHierarchy`.  A reader in group `k` then reads at edge
`BIG_RAM_SIZE + peArraySize * (k - 1) + i` what was written before edge
`BIG_RAM_SIZE`, for every size.

**`ResultIsFilteredAlways`.**  `ResultIsFiltered` is about cells that were written
long after the pixels were read.  `DataInv` follows the data between: each group's
bus shows the pixel whose turn it is (`BusFed`), the weights are those sent
(`WeightsSent`), and a stage holds the partial sum, up to it, of the pixel that
its number and the number of edges name (`SumsMove`), from which the loopback
records (`CellsRecorded`).  What makes it hard is what earlier runs leave: the
first signals of groups and branches are refreshed only by a change, and nothing
has reset them.  `GroupsJoined` and `BranchesJoined` say that such a signal is
what it is connected to or a stale sum that is still shifting through stages in
front of which there is nothing but zero; in the latter case the change is yet to come,
at the latest after one pass through the branch.  `JointsAreFlushed` follows.
That the last partial sum is the two-dimensional sum of the filter
(`FilteredIsLastSum`) takes a numbering of rows, columns and branches by stages
(`TermIsSummand`), and that a sum over a set may be taken in the order of that
numbering (`SumInOrder`).  The theorem has no hypothesis on sizes: when some
pixel of the convolution exists, a branch is shorter than the image (`OnTheImage`).

**`EveryCompleteCountsAlways`, `SyncsCompleteAlways`.**  A Complete is not tied to
its Sync, only to the master that sends it, so that it may count for the
tracker of another Sync.  `Counted` says that this does no harm: for each
master as many Completes are to come (snoops not delivered, threads not at their
port, messages in the fifo) as trackers wait for it.  `ThreadsOfDone` adds that
the trackers that are done are those a thread takes care of, and `SyncsKept` that
a Sync without its Complete is in the fifo or on the list, once.  All three fail
when a tracker is given to a second thread; `Received` shows that this needs
another tracker that waits, and so the Syncs of two masters at once, from which
`PacedNeverRepeatsAlways` follows.  `m_list` loses its tracker by
`std::list::remove` (`WithoutRemoves`), the threads end in any order
(`RemoveAtRemoves`).

**`PortAnswersRight`, `RemotePortAnswersAlways`.**  Four invariants, each of which
needs the ones before it.  `Stacked`: of the frames of the adaptor all but the
last wait for QEMU, and the last one does unless the adaptor is inside its access.
`Slotting` ties the slots to those who wait and to the packets: a used slot has
one owner (`Owned`), and either its response has come or exactly one packet of
either direction carries its number (`Flying`), which is the assertion of
`rp_process`.  `Serving` follows QEMU's program: the adaptor has taken its first
`g` requests, the rest are in the socket in order (`Unread`), each request taken
has been answered, its answer is on the way, or it is in a frame, and only one of
the three (`Replied`), and the memory and the wires are what the first `g` have
made of them (`Current`).  That a read of a memory cell sees the writes before it
needs the phases: while the adaptor is inside an access, the last request taken is
not in the memory yet.  `Bounded`: QEMU waits for no more accesses than it may, so
that there is a slot (`RoomFound`, by a map from the used slots into the threads
and the accesses QEMU waits for).  For `NobodyWaits` two more are needed.
`Alone`: without nesting there is at most one frame, and while it waits its
answer has not come (`Unready`), for the loop looks whenever a response comes.
`Heard`: what QEMU hears last of a wire that has not changed since is its level.
At rest the socket is empty, so a slot that is used has its answer (`Flying`), a
frame cannot be left (`Unready`), and nothing is unread, so `Replied` leaves every
request answered.

Only model-checked:

* All liveness (`FinishesWhenLeftAlone`, `WaitReturns` and the like): fairness
  is beyond the prover.
* The bridges and the checkers of the platform suite, whose references are folds over histories.  The array
  as a part of its own is the array of `Processor`, where its result is proved.
* The caches of ACE and CHI: invariants of this size over caches, transactions and snoops in
  flight have to be found first, and the lines of section 5 where the code loses
  track take part in each of them.

## 5. Findings

Checked by a run that TLC must find violated:

1. `checker_comments`: the checker of retries takes every request with AllowRetry
   deasserted for one that is sent again, and reports a PrefetchTgt
   (`checker-chi.h:2657`), which must have it deasserted (`391`): no prefetch
   passes both checks.
2. `demo_dma_falls`: a falling `transfer_ready` assigns `~DEMODMA_CTRL_RUN` to
   `ctrl` (`demo-dma.cc:173`), which sets DONE, and with it the interrupt,
   whatever is left to be copied.  The loopback's signal stays high until the
   next reset, so in the normal flow this happens at the reset of the next run,
   and a copy that is still going on then is reported as done.
3. `processor_first`: the loopback waits one edge too few (`descriptors.h:121`).
   Cell 512 of the source RAM holds a partial sum; the filtered image starts at
   513.  The test bench expects it at once (`test_bench.c:15`, `87`) and
   attributes its failure to the missing removal of the two columns per row
   where the kernel wraps around (`test_bench.c:91`), which is a different
   matter: also the first eight values are compared with their neighbours.
4. `driver_unmask`: an interrupt between `unmask_irq` and `wait_irq` is lost,
   for the file that `wait_irq` opens has not seen it and the poll has no
   timeout (`user_lvl_driver.c:287`, `288`).
5. `ace_overlap`: two writes to different words of one line are processed at
   once (`iconnect-ace.h:840`), and data cleaned out of a cache for one of them
   overwrite the other.

The modules have the following as the code does; no property asks for better.
The platform:

* `update` of a descriptor DMA also runs when reset *falls*; the comment above it
  says "rising edge of clk or high level reset" (`DMA.cc:113`, `182`).
* A second set of weights has no effect (`pe_socket_wrapper.cc:49`); reading the
  last word of a descriptor loads it again (`dma_socket_wrapper.cc:86`).
* The bus hands a transaction back with the offset as its address
  (`iconnect.h:219`) and refuses a grant that covers a whole target (`187`).
* The processor is started while its source RAM is still being filled, and a
  level-triggered interrupt may be that of the previous run (`Driver`, `paced`
  and `trigger`).

The remote port:

* With two requests of QEMU that both come back to it, the outer wait is not
  looked at while the inner one goes on (`remote-port-tlm.cc:371-387`,
  `508-594`): QEMU may wait for ever.
* A wire that changes before the peer's hello finds no slot and asserts
  (`remote-port-tlm-wires.cc:161`); one that changes while an update waits for its
  answer is missed (`133-163`); a second hello asserts (`remote-port-proto.c:405`).

ACE caches (the lines of `Lost`):

* A `CleanInvalid` drops the own dirty line (`cache-ace.h:880`); a
  `WriteUnique` across two lines skips the cached copy of one (`517`); a failed
  exclusive `CleanUnique` marks the line unique (`806`); an exclusive load that
  hits does not set the monitor, and the addresses the monitors compare differ;
  a sparse store of a whole line uses `MakeUnique`.
* With the DVM Syncs of two masters on their way, `GetDone` may return a tracker
  whose thread is already snooping (`iconnect-ace.h:1204-1217`), for `SetRunning`
  always stores false (`1125`): one master gets two Completes, and another may
  never get its own.  A Sync of the only master that takes part never completes.

CHI:

* A request with forwarded data is done without writing the dirty data of its
  snoop (`iconnect-chi.h:2894-2905`, `2429-2436`); a `CleanUnique` revalidates a
  line a snoop took (`txns-rn.h:748-755`) and clears its dirty bit, which an
  exclusive store that then fails loses; dirty data of some bytes are not merged
  (`iconnect-chi.h:2161`); a `SnpClean` leaves the line dirty
  (`cache-chi.h:891`); a write of some bytes across lines skips bytes; a sparse
  store of a whole line uses `MakeUnique`; byte enables are read before they are
  set (`iconnect-chi.h:1136`, `txns-rn.h:1610`, `1659`); exclusive stores to
  shared lines always fail (`CopyCHIAttr` drops the attribute).
* The slave node does only ADD and CLR of the eight operations of atomics: the
  sub-opcodes are written as octal and decimal numbers (`amba-chi.h:93-100`) and
  compared with three bits.  (The code for the others has mistakes of its own:
  UMIN calls `DoUMAX`, `sn-chi.h:765`, signed maxima use unsigned types.)  The
  reference of `SlaveNodeAnswers`, `Effect`, has all eight as they are meant; the
  run asks for ADD and CLR, and would fail with any other.  A partial `ReadNoSnp`
  would copy a whole line from the middle of the buffer; the home node asks for
  whole lines only, and so does the run.

AXI bridges:

* Bursts narrower than the bus take the lanes of the next transfer
  (`axi2tlm-bridge.h:413-424`); streaming widths that are no power of two give the
  wrong number of beats (`tlm2axi-bridge.h:316-339`); writes take their protection
  from `arprot` (`axi2tlm-bridge.h:1102`); a reset leaves the counts of barriers;
  a wrapping burst that does not start at its container is cut
  (`tlm-aligner.h:169-204`).  The scenarios keep to what is left.
* The address channel of tlm2axi would block with `awvalid` high if its queue of
  sixteen filled up; the limit of axi2tlm is the same number.

Checkers.  Where a checker judges otherwise than the protocol there is no scenario
of `CheckersExact`, so that mending the checker breaks no property:

* AXI: a late `wlast` is never reported (`checker-axi.h:899`; `config-axi.h:145`
  says it is); the order of data in AXI3 is never checked (`814-829`, `868`);
  reads beyond `max_depth` are dropped and their answers reported; addresses are
  compared in 32 bits; a response that says SLVERR or DECERR counts as an error of
  the traffic (`404-410`, `837-843`).
* ACE: a WriteBack during a WriteUnique is not reported and one during a
  WriteClean is (`checker-ace.h:2204-2213`); the lengths of wrapping write-backs
  are compared as beats and not as beats less one (`1896-1911`); a ReadOnce may
  not be answered shared (`783-789`); data before their address are reported.
* CHI: half of a logarithm is taken instead of half a size, so that misaligned
  compares pass (`checker-chi.h:440`); 32-byte compares never do (`496-523`);
  atomics other than the first of each kind escape two checks and fail another
  (`250`, `364`); ordered WriteNoSnp and stashing WriteUnique are reported (`342-380`);
  a PrefetchTgt cannot satisfy both the check of AllowRetry (`394`) and that of
  retries (`2654`), and a grant used before a second one makes the second retry an
  error (`2286`): these two are the `Departures` of `checker_comments`.  A request sent again
  without a credit wraps the count (`2415`); flits that return link credits end
  request 0 (`2558`, `2622`); data in more than one flit, and forwarded data that
  are sent before the response, are reported; a flit at the very edge that
  brings its credit passes (`81`); addresses are cut to twelve bits by a shift that
  is wider than its type (`flits-chi.h:341`), which is undefined.

## 6. What is not modelled

* `loadProgram`, `print_descriptors`, `DMA_MM2MM`: not called by the platform.
* The clock edge in the middle of the delta cycles of a register write: the
  remote-port thread writes a register at one instant, and the methods run
  before it writes the next.
* Clearing enable between the delta cycles of one clock edge: the same as
  clearing it before the edge, as far as a run that is reset next can tell.
* A pause in `SystolicArray` and `Processor`: the test bench makes none.
* Register reads and rejected accesses: they change nothing.
* Floating-point rounding: the values of this platform do not round.
* Remote port: the opening of the socket, the quantum (it only says when a
  thread gives up control), byte order of the fields.  Two accesses at a time
  that come back to QEMU (section 5).
* ACE: byte enables, secure and non-shareable accesses, error responses,
  barriers, maintenance over several lines (the transaction then ends with the
  first line that is done, `iconnect-ace.h:1589-1631`, in the model as well, but the run
  has one line at a time).  CHI: stashing, maintenance and exclusive requests at the home,
  which the caches of this library never send; secure accesses; ordered reads; byte enables of stores that
  cross lines; atomics that their caller marks as not to be snooped
  (`txns-rn.h:1231`).
* AXI bridges: user signals, qualities, regions, barriers, interleaved reads; the
  report on first beats of AXI3 bursts in another order than that of their addresses
  (`axi2tlm-bridge.h:1213`), which changes nothing.
* The checkers' reports that depend on undefined behaviour of `Extract` beyond
  the twelve bits it leaves.
* The other bridges (AXI-Lite, AXI-Stream, APB, VFIO, XGMII, and those of ACE and
  CHI to TLM, which repeat the channels of the AXI bridges and the transactions
  of the CHI nodes), `checker-axilite.h` (a subset of the AXI one),
  `tlm-exmon`, `tlm-splitter`, `tlm-wrap-expander`, the traffic generators and
  their tests, the RTL bridges in Verilog with their host software: not linked
  into the platform.
* The ZynqMP wrapper (renames sockets), the LMAC and RISC-V demos,
  `xilinx-axidma`, the Verilog timer, the other user applications.

## 7. Plan

What a next step would add, in this order:

1. Proofs about more parts of the suites: coherence for one line of
   `AceCoherence`.
2. The bridges between ACE or CHI signals and TLM, composed with the caches.
3. `AxiDma` (`xilinx-axidma`) and the APB bridge.
